---- MODULE Spec2Model ----
(***************************************************************************)
(* Verification model of the activity archive: the archive sync loop of    *)
(* src/src/export_activities_json.py, the CSV reconciler of                *)
(* src/src/export_csv.py, the archive readers of src/src/activity_archive  *)
(* and the runs report of src/src/generate_run_log.py.                     *)
(***************************************************************************)
EXTENDS Integers, Sequences, FiniteSets, TLC

(* ------------------------------ bounds --------------------------------- *)

\* Number of activity ids of the remote account in the sync specification.
NumIds == 2

\* Number of *.json file names of the archive directory the readers scan.
NumFiles == 3

\* Longest text, in words and marks, handed to the string helpers.
MaxText == 5
\* Largest value of --limit that a run is started with.
MaxLimit == 1
\* Number of distinct revisions of one activity's content the remote may serve.
MaxRev == 2

\* Largest number of rows of an existing out/activities.csv.
MaxRows == 2
\* Largest number of activities the feed returns to one CSV export.
MaxNew == 2

(* --------------------------- value domains ----------------------------- *)

\* Python's None, and a present optional value.
None == <<>>
Some(x) == <<x>>

Ids == 1 .. NumIds
Revs == 1 .. MaxRev
\* --new, --older (mutually exclusive) or neither.
Modes == {"default", "new", "older"}
\* --limit N, the number of new files to write (a count, N >= 0), or no --limit.
Limits == {None} \cup {Some(n) : n \in 0 .. MaxLimit}

\* The start_date of the activity with this id: later ids started later, and
\* from id 2 on two consecutive ids share one instant.
StartDate(id) == (id \div 2) + 1

\* A file of the archive directory: absent, partially written, or a complete
\* JSON document holding revision rev of the activity.
AbsentFile == [st |-> "absent", rev |-> 0]
PartialFile == [st |-> "partial", rev |-> 0]
CompleteFile(r) == [st |-> "complete", rev |-> r]


VARIABLES
    files,        \* archive/activities/<id>.json, by id
    tmp,          \* the <id>.json.tmp sibling atomic_write_json opened last
    pc,           \* position of the sync run in main()
    mode,         \* args.new / args.older / neither
    limit,        \* args.limit
    force,        \* args.force
    oldest,       \* bounds returned by get_archive_bounds()
    newest,
    list_kwargs,  \* the cursor handed to client.get_activities
    feed,         \* ids the activities iterator may still yield
    activity_id,  \* act.id of the candidate in hand (0 once it is dealt with)
    data,         \* activity_to_dict(detailed): the revision fetched (0: none)
    fetched,      \* ids for which client.get_activity was called in this run
    n_listed,
    n_written,
    n_skipped,
    pending,      \* exception in flight: "none", "KeyboardInterrupt", "Error"
    interrupted,  \* where the last KeyboardInterrupt of this run was raised
    summary,      \* the "Done. Listed .. | wrote .. | skipped .." line, once printed
    outcome,      \* "idle", "running", "returned" (normal exit), "raised"
    csv_file,     \* out/activities.csv
    csv_feed,     \* rows of the activities the feed returns to the next export
    csv_pc,       \* "ready": no export has run yet, "exported": one has
    full,         \* args.full of the last export
    existing_rows,\* what load_existing_rows returned to the last export
    latest_dt,
    new_rows,     \* [activity_to_row(a) for a in activities_iter]
    rows,         \* the merged, sorted rows the last export wrote
    archive_dir,  \* archive/activities as a reader finds it: any content
    scan,         \* the reader that ran last over archive_dir, and its result
    call,         \* the helper function called last, with its arguments
    ret,          \* what that call returned
    outputs       \* the files and directories the generators write, by path

syncVars == <<files, tmp, pc, mode, limit, force, oldest, newest, list_kwargs,
              feed, activity_id, data, fetched, n_listed, n_written, n_skipped,
              pending, interrupted, summary, outcome>>

csvVars == <<csv_file, csv_feed, csv_pc, full, existing_rows, latest_dt,
             new_rows, rows>>

toolVars == <<archive_dir, scan, call, ret, outputs>>

vars == <<syncVars, csvVars, toolVars>>

archiveVars == <<files, tmp>>
argVars == <<mode, limit, force>>
planVars == <<oldest, newest, list_kwargs>>
candVars == <<activity_id, data>>
counterVars == <<n_listed, n_written, n_skipped>>
excVars == <<pending, interrupted, summary, outcome>>

(***************************************************************************)
(* The archive directory as its readers find it.                           *)
(***************************************************************************)

\* str(n) for the numbers used as file names and ids.
IdText(n) == IF n < 10 THEN <<n>> ELSE <<n \div 10, n % 10>>

\* The stems of the *.json files a directory may hold: "9", "10", "11", ...
ArchiveNames == {IdText(8 + i) : i \in 1 .. NumFiles}

\* A timestamp field of a record: null, a number, a text that is no
\* timestamp, or an ISO text of a day <<year, month, day>> and a time, without
\* an offset (zone "") or with one (zone "Z").
TsNull == [form |-> "null", day |-> <<0, 0, 0>>, time |-> 0, zone |-> ""]
TsNumber == [form |-> "number", day |-> <<0, 0, 0>>, time |-> 0, zone |-> ""]
TsGarbage == [form |-> "garbage", day |-> <<0, 0, 0>>, time |-> 0, zone |-> ""]
TsIso(d, t, z) == [form |-> "iso", day |-> d, time |-> t, zone |-> z]

\* A text of the type fields is a sequence of words and of the marks "root=",
\* "'" and " "; <<"None">> stands for a null field.
NoneValue == <<"None">>

\* What one *.json file holds: bytes that cannot be read or are no JSON, a
\* JSON list, a JSON null, or a JSON object with the fields the readers use.
Unreadable == [kind |-> "unreadable"]
JsonList == [kind |-> "list"]
JsonNull == [kind |-> "null"]
JsonObject(ty, sp, sdl, sd, dist, mt) ==
    [kind |-> "object", type |-> ty, sport_type |-> sp,
     start_date_local |-> sdl, start_date |-> sd,
     distance |-> dist, moving_time |-> mt]

IsDict(c) == c.kind = "object"

(* ------------------------- archive bounds scan ------------------------- *)

\* out_path.exists(): any directory entry at the final path counts.
Exists(fs, id) == fs[id].st # "absent"

\* The ids whose *.json file json.loads reads to a record with a start_date.
Scannable(fs) == {id \in DOMAIN fs : fs[id].st = "complete"}

\* What activity_to_dict writes for activity id: a run whose start_date is a
\* UTC timestamp with its offset.
SyncedRecord(id) ==
    JsonObject(<<"Run">>, <<"Run">>,
               TsIso(<<2026, 1, StartDate(id)>>, 0, ""),
               TsIso(<<2026, 1, StartDate(id)>>, 0, "Z"), 0, 0)

\* The archive directory the sync keeps, as a reader finds it: a partial file
\* cannot be parsed.
ArchiveOf(fs) ==
    [exists |-> TRUE,
     files |-> [id \in {i \in DOMAIN fs : Exists(fs, i)} |->
                  IF id \in Scannable(fs) THEN SyncedRecord(id) ELSE Unreadable]]

\* parse_iso(dt_str): the datetime <<day, time>> of an ISO text, aware when
\* the text carries an offset; None when fromisoformat raises.
parse_iso(ts) ==
    IF ts.form = "iso"
    THEN Some([day |-> ts.day, time |-> ts.time, aware |-> ts.zone # ""])
    ELSE None

\* a < b on two datetimes of the same kind.
DtLess(a, b) ==
    \/ a.day[1] < b.day[1]
    \/ a.day[1] = b.day[1] /\ a.day[2] < b.day[2]
    \/ a.day[1] = b.day[1] /\ a.day[2] = b.day[2] /\ a.day[3] < b.day[3]
    \/ a.day = b.day /\ a.time < b.time

\* get_archive_bounds(): (oldest, newest) over the start_date of the files.
\* Every file of the directory is visited, in the order glob gives them:
\*   a file that cannot be read or parsed is passed over;
\*   data.get raises AttributeError when the JSON value is no object;
\*   a start_date that is no string, or that parse_iso rejects, is passed over;
\*   dt < oldest raises TypeError when one datetime carries an offset and the
\*     other does not, which happens whatever the order as soon as two such
\*     files are present.
\* Nothing catches these exceptions.
get_archive_bounds(dir) ==
    LET loaded == {n \in DOMAIN dir.files : dir.files[n] # Unreadable}
        dts == {parse_iso(dir.files[n].start_date)[1] :
                  n \in {m \in loaded : /\ IsDict(dir.files[m])
                                        /\ dir.files[m].start_date.form \in {"garbage", "iso"}
                                        /\ parse_iso(dir.files[m].start_date) # None}}
        raises == \/ \E n \in loaded : ~IsDict(dir.files[n])
                  \/ \E x, y \in dts : x.aware # y.aware
    IN  IF raises THEN [oldest |-> None, newest |-> None, raised |-> TRUE]
        ELSE IF dts = {} THEN [oldest |-> None, newest |-> None, raised |-> FALSE]
        ELSE [oldest |-> Some(CHOOSE x \in dts : \A y \in dts : ~DtLess(y, x)),
              newest |-> Some(CHOOSE x \in dts : \A y \in dts : ~DtLess(x, y)),
              raised |-> FALSE]

(* ------------------------------ planner -------------------------------- *)

NoCursor == [before |-> None, after |-> None]

\* ChooseWindow with --older anchored at the newest record instead of the oldest.
ChooseWindow_WrongAnchor(m, old, new) ==
    IF m = "older"
    THEN IF new = None THEN NoCursor ELSE [NoCursor EXCEPT !.before = new]
    ELSE IF new = None THEN NoCursor ELSE [NoCursor EXCEPT !.after = new]

\* The listing window main() chooses from the mode and the bounds.
ChooseWindow(m, old, new) ==
    IF m = "older"
    THEN IF old = None THEN NoCursor ELSE [NoCursor EXCEPT !.before = old]
    ELSE IF new = None THEN NoCursor ELSE [NoCursor EXCEPT !.after = new]

(* ----------------------------- loop tests ------------------------------ *)

\* LimitReached with the comparison off by one (> for >=).
LimitReached_OffByOne(lim, written) == lim # None /\ written > lim[1]

\* LimitReached stopping one write early (n_written + 1 for n_written).
LimitReached_OneEarly(lim, written) == lim # None /\ written + 1 >= lim[1]

\* "if args.limit is not None and n_written >= args.limit: break"
LimitReached(lim, written) == lim # None /\ written >= lim[1]

\* ShouldSkip with the --force flag read the wrong way round.
ShouldSkip_ForceInverted(fs, id, frc) == Exists(fs, id) /\ frc

\* "if out_path.exists() and not args.force"
ShouldSkip(fs, id, frc) == Exists(fs, id) /\ ~frc

(* ---------------------------- atomic write ----------------------------- *)
\* Each step of atomic_write_json(path, data) gives the final files and the
\* .tmp sibling after it. A sibling left behind by an interrupted write stays
\* on disk until the next write opens (and truncates) one; no code reads it,
\* as glob("*.json") does not match "<id>.json.tmp".

\* OpenTmp opening the final path itself: a write in place.
OpenTmp_InPlace(fs, t, id, r) ==
    [files |-> [fs EXCEPT ![id] = PartialFile], tmp |-> t]

\* open(tmp_path, "w"): the .tmp sibling is created or truncated.
OpenTmp(fs, t, id, r) ==
    [files |-> fs, tmp |-> PartialFile]

\* json.dump(...) and the close of the with block: the .tmp sibling is complete.
DumpTmp(fs, t, id, r) ==
    [files |-> fs, tmp |-> CompleteFile(r)]

\* tmp_path.replace(path): the rename over the final path.
ReplaceTmp(fs, t, id) ==
    [files |-> [fs EXCEPT ![id] = t], tmp |-> AbsentFile]

(* --------------------------- exception flow ---------------------------- *)

PreLoop == {"scan", "plan"}
TryBody == {"next", "limit", "exists", "fetch", "open", "dump", "replace", "count"}

\* InterruptTarget without the except KeyboardInterrupt clause.
InterruptTarget_NoExcept(p) ==
    IF p \in TryBody \/ p = "except" THEN "finally" ELSE "done"

\* Where control goes when KeyboardInterrupt is raised at position p:
\* outside the try statement it leaves main(), inside the try body the except
\* clause takes it, inside the except clause the finally clause runs with the
\* exception in flight, inside the finally clause it leaves main().
InterruptTarget(p) ==
    IF p \in TryBody THEN "except"
    ELSE IF p = "except" THEN "finally"
    ELSE "done"

\* ErrorTarget with the failure swallowed and the loop going on.
ErrorTarget_Swallowed(p) == "next"

\* Where control goes when a call of the try body raises an exception that is
\* not a KeyboardInterrupt: no except clause matches, the finally clause runs.
ErrorTarget(p) == "finally"

InterruptPlace(p) ==
    IF p \in PreLoop THEN "preloop"
    ELSE IF p \in TryBody THEN "loop"
    ELSE "handler"

(***************************************************************************)
(* The CSV reconciler of src/src/export_csv.py.                            *)
(***************************************************************************)

\* A text is a sequence of character codes, so that texts compare as Python
\* strings do. <<0>> stands for None, the value csv.DictReader gives to a
\* field that a short row lacks.
MissingField == <<0>>

\* "v" as a condition: neither None nor the empty string.
Truthy(v) == v # <<>> /\ v # MissingField

\* str(v or "")
OrEmpty(v) == IF Truthy(v) THEN v ELSE <<>>

\* What csv.DictWriter writes for a value: None becomes the empty field.
CsvText(v) == IF v = MissingField THEN <<>> ELSE v

\* Python's a < b on strings: the first differing character decides, a proper
\* prefix is smaller.
StrLess(a, b) ==
    \E i \in 1 .. Len(b) :
        /\ i <= Len(a) + 1
        /\ \A j \in 1 .. (i - 1) : a[j] = b[j]
        /\ (i = Len(a) + 1 \/ a[i] < b[i])

\* The sort key of a row: (date_local, start_time_local, id), each as a string.
KeyOf(r) ==
    <<OrEmpty(r.date_local), OrEmpty(r.start_time_local), OrEmpty(r.id)>>

\* Python's k1 < k2 on tuples of strings.
KeyLess(k1, k2) ==
    \E i \in 1 .. 3 :
        /\ \A j \in 1 .. (i - 1) : k1[j] = k2[j]
        /\ StrLess(k1[i], k2[i])

\* One row put in its place in a list sorted in descending order: behind every
\* row whose key is not smaller (rows with equal keys keep their order).
InsertDesc(out, r) ==
    LET n == Cardinality({i \in 1 .. Len(out) : ~KeyLess(KeyOf(out[i]), KeyOf(r))})
    IN  SubSeq(out, 1, n) \o <<r>> \o SubSeq(out, n + 1, Len(out))

RECURSIVE SortPrefix(_, _)
SortPrefix(rs, k) ==
    IF k = 0 THEN <<>> ELSE InsertDesc(SortPrefix(rs, k - 1), rs[k])

\* The (date, time) part of the key alone.
DateTimeLess(r1, r2) ==
    KeyLess(<<KeyOf(r1)[1], KeyOf(r1)[2], <<>>>>, <<KeyOf(r2)[1], KeyOf(r2)[2], <<>>>>)

RECURSIVE AscendingByDateTime(_, _)
AscendingByDateTime(rs, k) ==
    IF k = 0 THEN <<>>
    ELSE LET out == AscendingByDateTime(rs, k - 1)
             n == Cardinality({i \in 1 .. Len(out) : ~DateTimeLess(rs[k], out[i])})
         IN  SubSeq(out, 1, n) \o <<rs[k]>> \o SubSeq(out, n + 1, Len(out))

\* SortRows as an ascending sort by (date, time) that is then reversed: rows
\* that tie change places on every run.
SortRows_ReversedAscending(rs) ==
    LET asc == AscendingByDateTime(rs, Len(rs))
    IN  [i \in 1 .. Len(asc) |-> asc[Len(asc) + 1 - i]]

\* rows.sort(key=(date_local, start_time_local, id), reverse=True): stable.
SortRows(rs) == SortPrefix(rs, Len(rs))

\* DictPut keeping the row already stored under the id.
DictPut_KeepsFirst(d, r) ==
    IF \E i \in 1 .. Len(d) : d[i].id = r.id THEN d ELSE Append(d, r)

\* merged_by_id[str(r["id"])] = r on a dict, held as the list of its values in
\* insertion order: a known id keeps its place and takes the row, a new id is
\* appended.
DictPut(d, r) ==
    IF \E i \in 1 .. Len(d) : d[i].id = r.id
    THEN [i \in 1 .. Len(d) |-> IF d[i].id = r.id THEN r ELSE d[i]]
    ELSE Append(d, r)

RECURSIVE PutAll(_, _, _)
PutAll(d, rs, k) ==
    IF k = 0 THEN d ELSE DictPut(PutAll(d, rs, k - 1), rs[k])

\* {str(r["id"]): r for r in existing_rows if r.get("id")}
HasId(r) == Truthy(r.id)
SeedExisting(existing) ==
    LET kept == SelectSeq(existing, HasId) IN PutAll(<<>>, kept, Len(kept))

\* list(merged_by_id.values()) after the new rows are stored over the seed.
MergeById(existing, new) == PutAll(SeedExisting(existing), new, Len(new))

\* The date and time texts datetime.fromisoformat accepts: HH:MM:SS gives a
\* naive datetime, HH:MM:SS+00:00 (here the time followed by "+") an
\* offset-aware one.
ValidDates == {<<1>>, <<2>>}
ValidTimes == {<<1>>, <<2>>}
AwareTimes == {<<1, 43>>}

\* parse_row_datetime(row): the instant <<date, time, aware>>, or None.
parse_row_datetime(r) ==
    LET date_s == OrEmpty(r.date_local)
        time_s == OrEmpty(r.start_time_local)
    IN  IF date_s = <<>> \/ time_s = <<>> THEN None
        ELSE IF date_s \in ValidDates /\ time_s \in ValidTimes \cup AwareTimes
             THEN Some(<<date_s[1], time_s[1], time_s \in AwareTimes>>)
             ELSE None

\* a <= b on two datetimes of the same kind.
InstantLeq(a, b) == a[1] < b[1] \/ (a[1] = b[1] /\ a[2] <= b[2])

\* out/activities.csv: absent, or a header and rows.
NoFile == [exists |-> FALSE, rows |-> <<>>]
CsvFile(rs) == [exists |-> TRUE, rows |-> rs]

\* load_existing_rows(path): the rows csv.DictReader reads and the latest
\* (date_local, start_time_local) instant among those that parse. max(dts)
\* compares the datetimes with one another: Python raises TypeError when an
\* offset-aware one meets a naive one, and nothing catches it.
load_existing_rows(file) ==
    IF ~file.exists THEN [rows |-> <<>>, latest_dt |-> None, raised |-> FALSE]
    ELSE LET dts == {parse_row_datetime(file.rows[i])[1] :
                       i \in {j \in 1 .. Len(file.rows) :
                                parse_row_datetime(file.rows[j]) # None}}
             mixed == \E x, y \in dts : x[3] # y[3]
         IN  [rows |-> file.rows,
              latest_dt |-> IF dts = {} \/ mixed THEN None
                            ELSE Some(CHOOSE x \in dts :
                                        \A y \in dts : InstantLeq(y, x)),
              raised |-> mixed]

\* csv.DictWriter: header, then every row with its values as text.
WriteCsv(rs) ==
    CsvFile([i \in 1 .. Len(rs) |->
               [id |-> CsvText(rs[i].id),
                date_local |-> CsvText(rs[i].date_local),
                start_time_local |-> CsvText(rs[i].start_time_local)]])

\* Rows an existing out/activities.csv may hold: ids "", "9", "10", "11"; a
\* first day at two times, a second day on a short row without a time; a row
\* whose date text is no date (and is greater, as a string, than every date);
\* and a row whose time text carries a UTC offset.
ExistingRowSet ==
    {[id |-> i, date_local |-> d[1], start_time_local |-> d[2]] :
        i \in {<<>>, <<9>>, <<1, 0>>, <<1, 1>>},
        d \in {<<<<1>>, <<1>>>>, <<<<1>>, <<2>>>>, <<<<2>>, MissingField>>}}
    \cup {[id |-> <<9>>, date_local |-> <<9>>, start_time_local |-> <<1>>],
          [id |-> <<1, 0>>, date_local |-> <<2>>, start_time_local |-> <<1, 43>>]}

\* Rows activity_to_row derives from fetched activities: id = str(a.id), and
\* the date and time of a later start.
NewRowSet ==
    {[id |-> i, date_local |-> <<2>>, start_time_local |-> <<2>>] :
        i \in {<<9>>, <<1, 0>>, <<1, 1>>}}

SeqsUpTo(S, n) == UNION {[1 .. k -> S] : k \in 0 .. n}

\* No CSV export has run and there is no out/activities.csv.
CsvIdle ==
    /\ csv_file = NoFile
    /\ csv_feed = <<>>
    /\ csv_pc = "ready"
    /\ full = FALSE
    /\ existing_rows = <<>> /\ latest_dt = None
    /\ new_rows = <<>> /\ rows = <<>>

(***************************************************************************)
(* The archive readers of src/src/activity_archive.                        *)
(***************************************************************************)

\* Distances are held in millimetres and durations in seconds.
M_PER_MI == 1609344

\* The objects the archive may hold:
\*   a run late on Jan 31 local time, which is Feb 1 in UTC: 5 mi in 3000 s;
\*   a root='Run' on Jan 15 with no distance;
\*   a run whose local timestamp is no timestamp and whose start_date has no
\*     offset, on Feb 10: 3 mi, no moving time;
\*   a walk on Mar 1;
\*   a run with no timestamp at all;
\*   a trail run known by its sport_type only, on Feb 10 local, Feb 11 UTC;
\*   a run of Mar 5 whose type is one blank and whose sport_type is Run.
RecordSet ==
    { JsonObject(<<"Run">>, <<"Run">>,
                 TsIso(<<2026, 1, 31>>, 23, ""), TsIso(<<2026, 2, 1>>, 7, "Z"),
                 5 * M_PER_MI, 3000),
      JsonObject(<<"root=", "'", "Run", "'">>, NoneValue,
                 TsIso(<<2026, 1, 15>>, 8, ""), TsIso(<<2026, 1, 15>>, 16, "Z"),
                 0, 600),
      JsonObject(<<"Run">>, NoneValue,
                 TsGarbage, TsIso(<<2026, 2, 10>>, 9, ""),
                 3 * M_PER_MI, 0),
      JsonObject(<<"Walk">>, <<"Walk">>,
                 TsIso(<<2026, 3, 1>>, 8, ""), TsIso(<<2026, 3, 1>>, 16, "Z"),
                 M_PER_MI, 1200),
      JsonObject(<<"Run">>, <<"Run">>, TsNull, TsNumber, M_PER_MI, 600),
      JsonObject(<<>>, <<"TrailRun">>,
                 TsIso(<<2026, 2, 10>>, 20, ""), TsIso(<<2026, 2, 11>>, 4, "Z"),
                 2 * M_PER_MI, 1500),
      JsonObject(<<" ">>, <<"Run">>,
                 TsIso(<<2026, 3, 5>>, 7, ""), TsIso(<<2026, 3, 5>>, 15, "Z"),
                 M_PER_MI, 480) }

FileContents == {Unreadable, JsonList, JsonNull} \cup RecordSet

\* archive/activities: missing, or a directory of *.json files by stem.
NoDir == [exists |-> FALSE, files |-> <<>>]
Dir(fs) == [exists |-> TRUE, files |-> fs]
Directories ==
    {NoDir} \cup {Dir(fs) : fs \in UNION {[N -> FileContents] : N \in SUBSET ArchiveNames}}

\* sorted(archive_dir.glob("*.json")): the file names in ascending order, as
\* strings.
SortedNames(S) ==
    CHOOSE q \in [1 .. Cardinality(S) -> S] :
        \A i, j \in 1 .. Cardinality(S) : i < j => StrLess(q[i], q[j])

\* iter_activity_dicts yielding whatever json.loads returned.
iter_activity_dicts_NoTypeCheck(dir) ==
    IF ~dir.exists THEN <<>>
    ELSE LET names == SortedNames(DOMAIN dir.files)
             loaded == SelectSeq(names, LAMBDA n : dir.files[n] # Unreadable)
         IN  [i \in 1 .. Len(loaded) |-> dir.files[loaded[i]]]

\* iter_activity_dicts(archive_dir): the JSON objects of the files, in the
\* order of the sorted names; a file that cannot be read or parsed, and a JSON
\* value that is not an object, are passed over.
iter_activity_dicts(dir) ==
    IF ~dir.exists THEN <<>>
    ELSE LET names == SortedNames(DOMAIN dir.files)
             loaded == SelectSeq(names, LAMBDA n : dir.files[n] # Unreadable)
             dicts == SelectSeq(loaded, LAMBDA n : IsDict(dir.files[n]))
         IN  [i \in 1 .. Len(dicts) |-> dir.files[dicts[i]]]

\* parse_isoish_datetime(dt_str): None for a value that is no string, is
\* blank or that fromisoformat rejects.
parse_isoish_datetime(ts) ==
    IF ts.form = "iso"
    THEN Some([day |-> ts.day, time |-> ts.time, aware |-> ts.zone # ""])
    ELSE None

\* activity_start_local(activity): start_date_local, else start_date.
activity_start_local(a) ==
    IF parse_isoish_datetime(a.start_date_local) # None
    THEN parse_isoish_datetime(a.start_date_local)
    ELSE parse_isoish_datetime(a.start_date)

(* ----------------------------- type strings ---------------------------- *)

\* The words and marks of the texts handed to the helpers.
Marks == {"root=", "'", " ", "Run", "Walk"}
Texts == UNION {[1 .. k -> Marks] : k \in 0 .. MaxText}

\* s.strip()
Strip(s) ==
    LET solid == {i \in 1 .. Len(s) : s[i] # " "}
    IN  IF solid = {} THEN <<>>
        ELSE SubSeq(s, CHOOSE i \in solid : \A j \in solid : i <= j,
                       CHOOSE i \in solid : \A j \in solid : i >= j)

\* ROOT_RE.search(s) for ROOT_RE = root='([^']+)': the leftmost root=' that is
\* followed by at least one character other than a quote and then by a quote;
\* group(1) is what stands between the two quotes.
ROOT_RE_search(s) ==
    LET starts == {i \in 1 .. Len(s) :
                     /\ s[i] = "root=" /\ i + 3 <= Len(s)
                     /\ s[i + 1] = "'" /\ s[i + 2] # "'"
                     /\ \E j \in (i + 3) .. Len(s) : s[j] = "'"}
    IN  IF starts = {} THEN None
        ELSE LET i == CHOOSE x \in starts : \A y \in starts : x <= y
                 j == CHOOSE x \in (i + 3) .. Len(s) :
                        /\ s[x] = "'"
                        /\ \A y \in (i + 3) .. (x - 1) : s[y] # "'"
             IN  Some(SubSeq(s, i + 2, j - 1))

\* activity.normalize_root_string(v)
normalize_root_string(v) ==
    IF v = NoneValue THEN <<>>
    ELSE IF ROOT_RE_search(v) # None THEN ROOT_RE_search(v)[1] ELSE Strip(v)

\* generate_csv.extract_root_string(v): the text itself when nothing matches.
extract_root_string(v) ==
    IF v = NoneValue THEN <<>>
    ELSE IF ROOT_RE_search(v) # None THEN ROOT_RE_search(v)[1] ELSE v

RUN_TYPES == {<<"Run">>, <<"TrailRun">>, <<"VirtualRun">>}

\* activity.activity_type(activity)
activity_type(a) ==
    IF normalize_root_string(a.type) # <<>>
    THEN normalize_root_string(a.type)
    ELSE normalize_root_string(a.sport_type)

\* activity.is_run(activity)
is_run(a) == activity_type(a) \in RUN_TYPES

\* generate_csv.activity_to_row(a): the "type" column, and whether the row
\* gets a pace (activity_type in RUN_TYPES).
activity_to_row_type(a) ==
    LET type_str == extract_root_string(a.type)
        sport_type_str == extract_root_string(a.sport_type)
        kind == IF type_str # <<>> THEN type_str ELSE sport_type_str
    IN  [type |-> kind, paced |-> kind \in RUN_TYPES]

\* The values of the "type" and "sport_type" fields of the records handed to
\* activity_type: null, empty, blank, plain, padded and tagged.
TypeValues ==
    {NoneValue, <<>>, <<" ">>, <<"Run">>, <<" ", "Run">>, <<"Walk">>,
     <<"VirtualRun">>, <<"root=", "'", "TrailRun", "'">>}
TypedRecords ==
    {JsonObject(ty, sp, TsNull, TsNull, 0, 0) : ty \in TypeValues, sp \in TypeValues}

(* -------------------------------- pace --------------------------------- *)

RECURSIVE GCD(_, _)
GCD(a, b) == IF b = 0 THEN a ELSE GCD(b, a % b)

\* a / b on numbers: ZeroDivisionError when b is 0, else the quotient, held as
\* the fraction <<numerator, denominator>> in lowest terms.
Divide(a, b) ==
    IF b = 0 THEN [raised |-> "ZeroDivisionError", value |-> None]
    ELSE LET sgn == IF b < 0 THEN -1 ELSE 1
             g == GCD(IF a < 0 THEN -a ELSE a, b * sgn)
         IN  [raised |-> "", value |-> Some(<<(a * sgn) \div g, (b * sgn) \div g>>)]

\* pace_seconds_per_mile with its guard testing < 0 for <= 0.
pace_seconds_per_mile_StrictGuard(distance_mi, moving_time_sec) ==
    IF distance_mi < 0 \/ moving_time_sec < 0
    THEN [raised |-> "", value |-> None]
    ELSE Divide(moving_time_sec, distance_mi)

\* pace_seconds_per_mile(distance_mi, moving_time_sec), the same in
\* generate_csv.py and in export_csv.py.
pace_seconds_per_mile(distance_mi, moving_time_sec) ==
    IF distance_mi <= 0 \/ moving_time_sec <= 0
    THEN [raised |-> "", value |-> None]
    ELSE Divide(moving_time_sec, distance_mi)

\* The distances (miles) and durations (seconds) the pace is asked for.
PaceDistances == -1 .. 7
PaceDurations == {-1, 0, 1, 7, 600, 3000}

(* ----------------- the runs report of generate_run_log.py --------------- *)

\* generate_run_log.extract_type_str(activity): type, else sport_type, else
\* ""; when the text holds root=, what stands between its first two quotes;
\* else the trimmed text.
extract_type_str(a) ==
    LET raw == IF a.type \notin {NoneValue, <<>>} THEN a.type
               ELSE IF a.sport_type \notin {NoneValue, <<>>} THEN a.sport_type
               ELSE <<>>
        quotes == {i \in 1 .. Len(raw) : raw[i] = "'"}
        q1 == CHOOSE i \in quotes : \A j \in quotes : i <= j
        later == {i \in quotes : i > q1}
        q2 == CHOOSE i \in later : \A j \in later : i <= j
    IN  IF (\E i \in 1 .. Len(raw) : raw[i] = "root=") /\ quotes # {} /\ later # {}
        THEN SubSeq(raw, q1 + 1, q2 - 1)
        ELSE Strip(raw)

\* generate_run_log.is_run(activity)
report_is_run(a) == extract_type_str(a) \in RUN_TYPES

\* generate_run_log.parse_iso_datetime(s)
parse_iso_datetime(ts) ==
    IF ts.form = "iso"
    THEN Some([day |-> ts.day, time |-> ts.time, aware |-> ts.zone # ""])
    ELSE None

\* meters_to_miles(meters): 0.0 for no distance, else meters / 1609.344; the
\* miles are held as a fraction.
meters_to_miles(mm) == IF mm = 0 THEN <<0, 1>> ELSE Divide(mm, M_PER_MI).value[1]

\* a + b on two fractions.
FracAdd(a, b) == Divide(a[1] * b[2] + b[1] * a[2], a[2] * b[2]).value[1]

\* int(round(x)) for a fraction x >= 0: to the nearest integer, a half to the
\* even one.
RoundFrac(x) ==
    LET q == x[1] \div x[2]
        r == x[1] % x[2]
    IN  IF 2 * r < x[2] THEN q
        ELSE IF 2 * r > x[2] THEN q + 1
        ELSE IF q % 2 = 0 THEN q ELSE q + 1

\* seconds_to_mmss(total_seconds): the text "m:ss" as <<minutes, seconds>>.
seconds_to_mmss(total_seconds) == <<total_seconds \div 60, total_seconds % 60>>

\* compute_pace_mmss(dist_mi, moving_seconds): "" (here <<>>) without a
\* positive distance and a positive time.
compute_pace_mmss(dist_mi, moving_seconds) ==
    IF dist_mi[1] <= 0 \/ moving_seconds <= 0 THEN <<>>
    ELSE seconds_to_mmss(RoundFrac(Divide(moving_seconds * dist_mi[2], dist_mi[1]).value[1]))

\* The RunRow load_runs_by_month builds from one file, with the key of its
\* month; None for a file it passes over.
RunRowOf(c) ==
    IF c = Unreadable \/ ~IsDict(c) THEN None
    ELSE IF ~report_is_run(c) THEN None
    ELSE LET dt_local == IF parse_iso_datetime(c.start_date_local) # None
                         THEN parse_iso_datetime(c.start_date_local)
                         ELSE parse_iso_datetime(c.start_date)
         IN  IF dt_local = None THEN None
             ELSE Some([key |-> <<dt_local[1].day[1], dt_local[1].day[2]>>,
                        date_str |-> dt_local[1].day,
                        dist_mi |-> meters_to_miles(c.distance),
                        pace_mmss |-> compute_pace_mmss(meters_to_miles(c.distance),
                                                        c.moving_time),
                        moving_seconds |-> c.moving_time])

\* load_runs_by_month(activities_dir): the rows of the files in the order of
\* the sorted names, to be grouped by their key.
load_runs_by_month(dir) ==
    LET names == SortedNames(DOMAIN dir.files)
        kept == SelectSeq(names, LAMBDA n : RunRowOf(dir.files[n]) # None)
    IN  [i \in 1 .. Len(kept) |-> RunRowOf(dir.files[kept[i]])[1]]

\* by_month[key]: the rows of one month, in the order they were appended.
MonthRuns(loaded, key) == SelectSeq(loaded, LAMBDA r : r.key = key)

\* a < b on two date strings YYYY-MM-DD, and on two (year, month) keys.
DayLess(a, b) ==
    \/ a[1] < b[1]
    \/ a[1] = b[1] /\ a[2] < b[2]
    \/ a[1] = b[1] /\ a[2] = b[2] /\ a[3] < b[3]
KeyBefore(a, b) == a[1] < b[1] \/ (a[1] = b[1] /\ a[2] < b[2])

\* sorted(runs, key=lambda rr: rr.date_str, reverse=True): stable.
RECURSIVE SortRunsDesc(_, _)
SortRunsDesc(runs, k) ==
    IF k = 0 THEN <<>>
    ELSE LET out == SortRunsDesc(runs, k - 1)
             n == Cardinality({i \in 1 .. Len(out) :
                                 ~DayLess(out[i].date_str, runs[k].date_str)})
         IN  SubSeq(out, 1, n) \o <<runs[k]>> \o SubSeq(out, n + 1, Len(out))

RECURSIVE SumMiles(_, _)
SumMiles(runs, k) ==
    IF k = 0 THEN <<0, 1>> ELSE FracAdd(SumMiles(runs, k - 1), runs[k].dist_mi)

RECURSIVE SumSeconds(_, _)
SumSeconds(runs, k) ==
    IF k = 0 THEN 0 ELSE SumSeconds(runs, k - 1) + runs[k].moving_seconds

\* month_runs = sorted(runs, key=lambda rr: rr.date_str, reverse=True)
SortMonthRuns(runs) == SortRunsDesc(runs, Len(runs))

\* The average pace computed without looking at the totals.
AveragePace_NoGuard(total_miles, total_seconds) ==
    IF total_miles[1] = 0
    THEN [raised |-> "ZeroDivisionError", value |-> None]
    ELSE [raised |-> "",
          value |-> Some(seconds_to_mmss(RoundFrac(
                       Divide(total_seconds * total_miles[2], total_miles[1]).value[1])))]

\* The last line of a month block: int(round(total_seconds / total_miles)) as
\* m:ss when both totals are positive, else N/A (here None).
AveragePace(total_miles, total_seconds) ==
    IF total_miles[1] > 0 /\ total_seconds > 0
    THEN [raised |-> Divide(total_seconds * total_miles[2], total_miles[1]).raised,
          value |-> Some(seconds_to_mmss(RoundFrac(
                       Divide(total_seconds * total_miles[2], total_miles[1]).value[1])))]
    ELSE [raised |-> "", value |-> None]

\* render_month_block(year, month, runs): the lines of one month.
render_month_block(year, month, runs) ==
    LET month_runs == SortMonthRuns(runs)
        total_miles == SumMiles(month_runs, Len(month_runs))
        total_seconds == SumSeconds(month_runs, Len(month_runs))
        pace == AveragePace(total_miles, total_seconds)
    IN  [raised |-> pace.raised,
         lines |->
            <<[kind |-> "BIG_SEP"], [kind |-> "month", year |-> year, month |-> month],
              [kind |-> "SEP"]>>
            \o [i \in 1 .. Len(month_runs) |->
                  [kind |-> "run", date_str |-> month_runs[i].date_str,
                   dist_mi |-> month_runs[i].dist_mi,
                   pace_mmss |-> month_runs[i].pace_mmss,
                   time |-> seconds_to_mmss(month_runs[i].moving_seconds)]]
            \o <<[kind |-> "SEP"],
                  [kind |-> "Runs", n |-> Len(month_runs)],
                  [kind |-> "Miles", miles |-> total_miles],
                  [kind |-> "Time", seconds |-> total_seconds],
                  [kind |-> "Pace", pace |-> pace.value],
                  [kind |-> "blank"]>>]

\* sorted(runs_by_month.keys(), reverse=True)
RECURSIVE MonthKeysDesc(_)
MonthKeysDesc(keys) ==
    IF keys = {} THEN <<>>
    ELSE LET top == CHOOSE k \in keys : \A o \in keys : ~KeyBefore(k, o)
         IN  <<top>> \o MonthKeysDesc(keys \ {top})

RECURSIVE RenderBlocks(_, _, _)
RenderBlocks(loaded, month_keys, k) ==
    IF k = 0 THEN [raised |-> "", lines |-> <<>>]
    ELSE LET before == RenderBlocks(loaded, month_keys, k - 1)
             block == render_month_block(month_keys[k][1], month_keys[k][2],
                                         MonthRuns(loaded, month_keys[k]))
         IN  IF before.raised # "" THEN before
             ELSE IF block.raised # "" THEN [raised |-> block.raised, lines |-> <<>>]
             ELSE [raised |-> "", lines |-> before.lines \o block.lines]

\* generate_run_log.main(): the lines written to reports/runs_log.txt, or the
\* exception that ends main() before anything is written.
generate_run_log(dir) ==
    IF ~dir.exists THEN [raised |-> "FileNotFoundError", lines |-> <<>>]
    ELSE LET loaded == load_runs_by_month(dir)
             month_keys == MonthKeysDesc({loaded[i].key : i \in 1 .. Len(loaded)})
         IN  RenderBlocks(loaded, month_keys, Len(month_keys))

(* ------------------------ the report generators ------------------------ *)

\* The paths the generators write: three directories and the file each
\* generator puts into one of them.
OutDirs == {"out", "derived", "reports"}
OutFiles == {"out/activity_log.txt", "out/runs_log.txt", "derived/activities.csv",
             "reports/activity_log.txt", "reports/runs_log.txt"}

\* A path that does not exist, a directory, a file left by an earlier run, and
\* a file a generator has just written.
AbsentOutput == [st |-> "absent"]
DirOutput == [st |-> "dir"]
OldOutput == [st |-> "old"]
Written(content) == [st |-> "written", content |-> content]

\* Nothing was generated yet / every output is there from an earlier run.
NoOutputs == [p \in OutDirs \cup OutFiles |-> AbsentOutput]
OldOutputs == [p \in OutDirs \cup OutFiles |-> IF p \in OutDirs THEN DirOutput ELSE OldOutput]

\* An archived object with an "id" key.
WithId(c, v) == [id |-> v] @@ c

\* a.get("id") or "": 0 stands for a missing or null id.
IdField(a) == IF "id" \in DOMAIN a THEN a.id ELSE 0

\* The texts of a date and of a time in a CSV row: YYYY-MM-DD as its three
\* numbers and HH:MM:SS as its three numbers, so that they compare as the
\* strings do.
DateText(day) == day
TimeText(t) == <<t, 0, 0>>

\* generate_csv.parse_dt_maybe(dt_str): None for a falsy value and for a text
\* fromisoformat rejects; dt_str.strip() raises AttributeError on a value that
\* is neither falsy nor a string.
parse_dt_maybe(ts) ==
    IF ts.form = "number" THEN [raised |-> "AttributeError", value |-> None]
    ELSE IF ts.form = "iso"
    THEN [raised |-> "", value |-> Some([day |-> ts.day, time |-> ts.time])]
    ELSE [raised |-> "", value |-> None]

\* generate_csv.activity_to_row(a): the id, date, time and type columns of the
\* row (the other columns are functions of the record alone).
activity_to_row(a) ==
    LET start_local == parse_dt_maybe(a.start_date_local)
    IN  [raised |-> start_local.raised,
         row |-> [id |-> IF IdField(a) = 0 THEN <<>> ELSE IdText(IdField(a)),
                  date_local |-> IF start_local.value = None THEN <<>>
                                 ELSE DateText(start_local.value[1].day),
                  start_time_local |-> IF start_local.value = None THEN <<>>
                                       ELSE TimeText(start_local.value[1].time),
                  type |-> activity_to_row_type(a).type]]

\* generate_csv.main(): SystemExit without the archive directory, before
\* anything is created; else OUT_DIR is made, every file that holds a JSON
\* object gives a row, the rows without an id are dropped and the rest is
\* sorted by (date_local, start_time_local, id), descending. An exception of
\* activity_to_row ends main() before the CSV is opened.
generate_csv(dir) ==
    IF ~dir.exists THEN [raised |-> "SystemExit", mkdir |-> FALSE, rows |-> <<>>]
    ELSE LET names == SortedNames(DOMAIN dir.files)
             dicts == SelectSeq(names, LAMBDA n : IsDict(dir.files[n]))
             all == [i \in 1 .. Len(dicts) |-> activity_to_row(dir.files[dicts[i]])]
             kept == SelectSeq([i \in 1 .. Len(all) |-> all[i].row], HasId)
         IN  IF \E i \in 1 .. Len(all) : all[i].raised # ""
             THEN [raised |-> "AttributeError", mkdir |-> TRUE, rows |-> <<>>]
             ELSE [raised |-> "", mkdir |-> TRUE, rows |-> SortRows(kept)]

\* The orders in which glob may hand out the files of a directory.
GlobOrders(S) ==
    {q \in [1 .. Cardinality(S) -> S] : \A i, j \in 1 .. Cardinality(S) : i # j => q[i] # q[j]}

\* generate_activity_log.extract_type_str(activity)
activity_log_extract_type_str(a) ==
    LET raw == IF a.type \notin {NoneValue, <<>>} THEN a.type
               ELSE IF a.sport_type \notin {NoneValue, <<>>} THEN a.sport_type
               ELSE <<>>
        quotes == {i \in 1 .. Len(raw) : raw[i] = "'"}
        q1 == CHOOSE i \in quotes : \A j \in quotes : i <= j
        later == {i \in quotes : i > q1}
        q2 == CHOOSE i \in later : \A j \in later : i <= j
    IN  IF (\E i \in 1 .. Len(raw) : raw[i] = "root=") /\ quotes # {} /\ later # {}
        THEN SubSeq(raw, q1 + 1, q2 - 1)
        ELSE Strip(raw)

\* generate_activity_log.is_run(activity)
activity_log_is_run(a) == activity_log_extract_type_str(a) \in RUN_TYPES

\* The (dt, a) pair generate_activity_log.main() keeps for one file; None for
\* a file it passes over.
LoggedActivity(c) ==
    IF c = Unreadable \/ ~IsDict(c) THEN None
    ELSE LET dt == IF parse_iso_datetime(c.start_date_local) # None
                   THEN parse_iso_datetime(c.start_date_local)
                   ELSE parse_iso_datetime(c.start_date)
         IN  IF dt = None THEN None ELSE Some([dt |-> dt[1], a |-> c])

\* activities.sort(key=lambda x: x[0], reverse=True): stable.
RECURSIVE SortActivitiesDesc(_, _)
SortActivitiesDesc(acts, k) ==
    IF k = 0 THEN <<>>
    ELSE LET out == SortActivitiesDesc(acts, k - 1)
             n == Cardinality({i \in 1 .. Len(out) : ~DtLess(out[i].dt, acts[k].dt)})
         IN  SubSeq(out, 1, n) \o <<acts[k]>> \o SubSeq(out, n + 1, Len(out))

\* One line of reports/activity_log.txt: a run carries its pace and its time.
ActivityLine(x) ==
    IF activity_log_is_run(x.a)
    THEN [kind |-> "run", date_str |-> x.dt.day,
          type |-> activity_log_extract_type_str(x.a),
          dist_mi |-> meters_to_miles(x.a.distance),
          pace_mmss |-> compute_pace_mmss(meters_to_miles(x.a.distance), x.a.moving_time),
          time |-> seconds_to_mmss(x.a.moving_time)]
    ELSE [kind |-> "other", date_str |-> x.dt.day,
          type |-> activity_log_extract_type_str(x.a),
          dist_mi |-> meters_to_miles(x.a.distance)]

\* generate_activity_log.main() when glob hands out the files in the given
\* order: FileNotFoundError without the archive directory; the sort raises
\* TypeError when a datetime with an offset meets one without.
generate_activity_log(dir, order) ==
    IF ~dir.exists THEN [raised |-> "FileNotFoundError", lines |-> <<>>]
    ELSE LET kept == SelectSeq(order, LAMBDA n : LoggedActivity(dir.files[n]) # None)
             acts == [i \in 1 .. Len(kept) |-> LoggedActivity(dir.files[kept[i]])[1]]
             sorted == SortActivitiesDesc(acts, Len(acts))
         IN  IF \E i, j \in 1 .. Len(acts) : acts[i].dt.aware # acts[j].dt.aware
             THEN [raised |-> "TypeError", lines |-> <<>>]
             ELSE [raised |-> "", lines |-> [i \in 1 .. Len(sorted) |-> ActivityLine(sorted[i])]]

\* date.fromisoformat(text) on the date text of a CSV row.
date_fromisoformat(text) == IF Len(text) = 3 THEN Some(text) ELSE None

\* float(text) * 60 rounded, for the minutes of a CSV row.
MinutesToSeconds(minutes) == RoundFrac(<<minutes[1] * 60, minutes[2]>>)

\* The exception export_log.main() raises on one row, "" when it raises none:
\* date.fromisoformat(None) and float(None) raise TypeError, None.ljust
\* AttributeError, float("") ValueError. The type a short row lacks is held
\* as NoneValue.
ExportLogRaises(r) ==
    IF r.date_local = MissingField THEN "TypeError"
    ELSE IF r.type = NoneValue THEN "AttributeError"
    ELSE IF r.distance_mi = MissingField THEN "TypeError"
    ELSE IF r.distance_mi = <<>> THEN "ValueError"
    ELSE ""

\* One line of out/activity_log.txt.
ExportLogLine(r) ==
    LET date_str == IF date_fromisoformat(r.date_local) # None
                    THEN date_fromisoformat(r.date_local)[1] ELSE r.date_local
    IN  IF r.type \in RUN_TYPES
        THEN [kind |-> "run", date_str |-> date_str, type |-> r.type,
              dist_mi |-> r.distance_mi, pace_mmss |-> OrEmpty(r.pace_mmss),
              time |-> IF Truthy(r.moving_time_min)
                       THEN seconds_to_mmss(MinutesToSeconds(r.moving_time_min))
                       ELSE <<>>]
        ELSE [kind |-> "other", date_str |-> date_str, type |-> r.type,
              dist_mi |-> r.distance_mi]

\* export_log.main() opening the CSV without the test for its existence.
export_log_NoExistsTest(file) ==
    [raised |-> "", lines |-> [i \in 1 .. Len(file.rows) |-> ExportLogLine(file.rows[i])]]

\* export_log.main(): FileNotFoundError without out/activities.csv; else one
\* line per row in the order of the file. The first row that raises ends
\* main() before the output is opened.
export_log(file) ==
    IF ~file.exists THEN [raised |-> "FileNotFoundError", lines |-> <<>>]
    ELSE LET bad == {i \in 1 .. Len(file.rows) : ExportLogRaises(file.rows[i]) # ""}
         IN  IF bad # {}
             THEN [raised |-> ExportLogRaises(file.rows[CHOOSE i \in bad : \A j \in bad : i <= j]),
                   lines |-> <<>>]
             ELSE [raised |-> "",
                   lines |-> [i \in 1 .. Len(file.rows) |-> ExportLogLine(file.rows[i])]]

\* The RunRow export_runs_log.load_runs_by_month builds from one CSV row;
\* None for a row it passes over. safe_float gives 0.0 for an empty field.
CsvRunRowOf(r) ==
    IF r.type \notin RUN_TYPES THEN None
    ELSE IF date_fromisoformat(r.date_local) = None THEN None
    ELSE Some([key |-> <<r.date_local[1], r.date_local[2]>>,
               date_str |-> r.date_local,
               dist_mi |-> IF Truthy(r.distance_mi) THEN r.distance_mi ELSE <<0, 1>>,
               pace_mmss |-> OrEmpty(r.pace_mmss),
               moving_seconds |-> IF Truthy(r.moving_time_min)
                                  THEN MinutesToSeconds(r.moving_time_min) ELSE 0])

\* export_runs_log.main(): FileNotFoundError without out/activities.csv; else
\* the month blocks of the run rows, rendered as generate_run_log renders them
\* (the time of a run being its minutes * 60, rounded).
export_runs_log(file) ==
    IF ~file.exists THEN [raised |-> "FileNotFoundError", lines |-> <<>>]
    ELSE LET kept == SelectSeq(file.rows, LAMBDA r : CsvRunRowOf(r) # None)
             loaded == [i \in 1 .. Len(kept) |-> CsvRunRowOf(kept[i])[1]]
             month_keys == MonthKeysDesc({loaded[i].key : i \in 1 .. Len(loaded)})
         IN  IF \E i \in 1 .. Len(file.rows) :
                   file.rows[i].type \in RUN_TYPES /\ file.rows[i].date_local = MissingField
             THEN [raised |-> "TypeError", lines |-> <<>>]
             ELSE RenderBlocks(loaded, month_keys, Len(month_keys))

\* A row of out/activities.csv with the columns the reports read.
ReportRow(i, d, ty, dist, pace, mins) ==
    [id |-> i, date_local |-> d, start_time_local |-> TimeText(8), type |-> ty,
     distance_mi |-> dist, pace_mmss |-> pace, moving_time_min |-> mins]

\* The rows out/activities.csv may hold when a report is generated: a run of
\* Jan 31, a run of Jan 15 without a distance (an empty field), a walk of
\* Mar 1, a run whose date text is no date, a trail run of Feb 10, and a short
\* row that has its id only.
ReportRowSet ==
    { ReportRow(<<9>>, <<2026, 1, 31>>, <<"Run">>, <<5, 1>>, <<10, 0>>, <<50, 1>>),
      ReportRow(<<1, 0>>, <<2026, 1, 15>>, <<"Run">>, <<>>, <<>>, <<10, 1>>),
      ReportRow(<<1, 1>>, <<2026, 3, 1>>, <<"Walk">>, <<1, 1>>, <<>>, <<20, 1>>),
      ReportRow(<<9>>, <<9>>, <<"Run">>, <<1, 1>>, <<10, 0>>, <<10, 1>>),
      ReportRow(<<1, 0>>, <<2026, 2, 10>>, <<"TrailRun">>, <<2, 1>>, <<12, 30>>, <<25, 1>>),
      [id |-> <<9>>, date_local |-> MissingField, start_time_local |-> MissingField,
       type |-> NoneValue, distance_mi |-> MissingField, pace_mmss |-> MissingField,
       moving_time_min |-> MissingField] }

\* What the files of the archive may hold when a generator runs:
\*   the run of Jan 31 with id 9, with id 10 and without an id;
\*   a walk of Mar 1 with id 10;
\*   a run with id 11 whose start_date_local is a number;
\*   a trail run with id 11 that has its UTC start_date only (Feb 11, with an
\*     offset);
\*   bytes that are no JSON, and a JSON list.
ReportRecordSet ==
    LET run == JsonObject(<<"Run">>, <<"Run">>,
                          TsIso(<<2026, 1, 31>>, 23, ""), TsIso(<<2026, 2, 1>>, 7, "Z"),
                          5 * M_PER_MI, 3000)
    IN  { WithId(run, 9), WithId(run, 10), run,
          WithId(JsonObject(<<"Walk">>, <<"Walk">>,
                            TsIso(<<2026, 3, 1>>, 8, ""), TsIso(<<2026, 3, 1>>, 16, "Z"),
                            M_PER_MI, 1200), 10),
          WithId(JsonObject(<<"Run">>, <<"Run">>, TsNumber, TsNull, M_PER_MI, 600), 11),
          WithId(JsonObject(<<>>, <<"TrailRun">>,
                            TsNull, TsIso(<<2026, 2, 11>>, 4, "Z"),
                            2 * M_PER_MI, 1500), 11) }

ReportDirectories ==
    {NoDir} \cup {Dir(fs) : fs \in UNION {[N -> {Unreadable, JsonList} \cup ReportRecordSet] :
                                             N \in SUBSET ArchiveNames}}

\* No reader has run and no helper was called.
NoScan == [tool |-> "none"]
NoCall == [fn |-> "none"]
ToolIdle ==
    /\ archive_dir = NoDir
    /\ scan = NoScan
    /\ call = NoCall /\ ret = <<>>
    /\ outputs = NoOutputs

(* ------------------------------ actions -------------------------------- *)

\* No sync run has started and the archive directory is empty.
SyncIdle ==
    /\ files = [id \in Ids |-> AbsentFile]
    /\ tmp = AbsentFile
    /\ pc = "idle"
    /\ mode = "default" /\ limit = None /\ force = FALSE
    /\ oldest = None /\ newest = None /\ list_kwargs = NoCursor
    /\ feed = {}
    /\ activity_id = 0 /\ data = 0
    /\ fetched = {}
    /\ n_listed = 0 /\ n_written = 0 /\ n_skipped = 0
    /\ pending = "none" /\ interrupted = "no" /\ summary = None
    /\ outcome = "idle"

\* A fresh checkout: no archive, no CSV, nothing started.
Init == SyncIdle /\ CsvIdle /\ ToolIdle

\* python3 src/export_activities_json.py [--new|--older] [--limit N] [--force]:
\* argument parsing, get_client() and OUT_DIR.mkdir.
StartRun ==
    /\ pc \in {"idle", "done"}
    /\ \E m \in Modes, l \in Limits, f \in BOOLEAN :
          mode' = m /\ limit' = l /\ force' = f
    /\ pc' = "scan"
    /\ oldest' = None /\ newest' = None /\ list_kwargs' = NoCursor
    /\ feed' = {}
    /\ activity_id' = 0 /\ data' = 0
    /\ fetched' = {}
    /\ n_listed' = 0 /\ n_written' = 0 /\ n_skipped' = 0
    /\ pending' = "none" /\ interrupted' = "no" /\ summary' = None
    /\ outcome' = "running"
    /\ UNCHANGED archiveVars
    /\ UNCHANGED <<csvVars, toolVars>>

\* oldest, newest = get_archive_bounds(): an exception of the scan leaves
\* main(), which has not entered its try block yet.
ScanBounds ==
    /\ pc = "scan"
    /\ LET bounds == get_archive_bounds(ArchiveOf(files))
       IN  IF bounds.raised
           THEN /\ pending' = "Error" /\ outcome' = "raised" /\ pc' = "done"
                /\ UNCHANGED <<oldest, newest, interrupted, summary>>
           ELSE /\ oldest' = bounds.oldest /\ newest' = bounds.newest
                /\ pc' = "plan"
                /\ UNCHANGED excVars
    /\ UNCHANGED <<archiveVars, argVars, list_kwargs, feed, candVars, fetched,
                   counterVars>>
    /\ UNCHANGED <<csvVars, toolVars>>

\* The listing window, then activities_iter = client.get_activities(**list_kwargs).
\* The remote feed is a collaborator: it may list any of the ids, in any order.
PlanListing ==
    /\ pc = "plan"
    /\ list_kwargs' = ChooseWindow(mode, oldest, newest)
    /\ feed' = DOMAIN files
    /\ pc' = "next"
    /\ UNCHANGED <<archiveVars, argVars, oldest, newest, candVars, fetched,
                   counterVars, excVars>>
    /\ UNCHANGED <<csvVars, toolVars>>

\* "for act in activities_iter": the iterator yields its next candidate.
NextCandidate ==
    /\ pc = "next"
    /\ \E id \in feed :
          /\ activity_id' = id
          /\ feed' = feed \ {id}
    /\ pc' = "limit"
    /\ UNCHANGED <<archiveVars, argVars, planVars, data, fetched, counterVars,
                   excVars>>
    /\ UNCHANGED <<csvVars, toolVars>>

\* The iterator is exhausted: the loop ends and the finally clause runs.
FeedExhausted ==
    /\ pc = "next"
    /\ feed = {}
    /\ pc' = "finally"
    /\ UNCHANGED <<archiveVars, argVars, planVars, feed, candVars, fetched,
                   counterVars, excVars>>
    /\ UNCHANGED <<csvVars, toolVars>>

\* The remote listing holds none of the remaining ids: the iterator is
\* exhausted before every id of the model has been listed.
ShortFeed ==
    /\ pc = "next"
    /\ feed # {}
    /\ feed' = {}
    /\ pc' = "finally"
    /\ UNCHANGED <<archiveVars, argVars, planVars, candVars, fetched,
                   counterVars, excVars>>
    /\ UNCHANGED <<csvVars, toolVars>>

\* The listing request behind the iterator fails (network, auth).
ListFails ==
    /\ pc = "next"
    /\ pending' = "Error"
    /\ pc' = ErrorTarget(pc)
    /\ UNCHANGED <<archiveVars, argVars, planVars, feed, candVars, fetched,
                   counterVars, interrupted, summary, outcome>>
    /\ UNCHANGED <<csvVars, toolVars>>

\* The stop test at the head of the loop body, then n_listed += 1.
CheckLimit ==
    /\ pc = "limit"
    /\ IF LimitReached(limit, n_written)
       THEN pc' = "finally" /\ UNCHANGED n_listed
       ELSE pc' = "exists" /\ n_listed' = n_listed + 1
    /\ UNCHANGED <<archiveVars, argVars, planVars, feed, candVars, fetched,
                   n_written, n_skipped, excVars>>
    /\ UNCHANGED <<csvVars, toolVars>>

\* The filesystem-only existence test: skip (continue) or go on to fetch.
CheckExists ==
    /\ pc = "exists"
    /\ IF ShouldSkip(files, activity_id, force)
       THEN pc' = "next" /\ n_skipped' = n_skipped + 1 /\ activity_id' = 0
       ELSE pc' = "fetch" /\ UNCHANGED <<n_skipped, activity_id>>
    /\ UNCHANGED <<archiveVars, argVars, planVars, feed, data, fetched,
                   n_listed, n_written, excVars>>
    /\ UNCHANGED <<csvVars, toolVars>>

\* detailed = client.get_activity(activity_id); data = activity_to_dict(detailed)
FetchDetail ==
    /\ pc = "fetch"
    /\ \E r \in Revs : data' = r
    /\ fetched' = fetched \cup {activity_id}
    /\ pc' = "open"
    /\ UNCHANGED <<archiveVars, argVars, planVars, feed, activity_id,
                   counterVars, excVars>>
    /\ UNCHANGED <<csvVars, toolVars>>

\* client.get_activity raises: not a KeyboardInterrupt, so only finally runs.
FetchFails ==
    /\ pc = "fetch"
    /\ fetched' = fetched \cup {activity_id}
    /\ pending' = "Error"
    /\ pc' = ErrorTarget(pc)
    /\ UNCHANGED <<archiveVars, argVars, planVars, feed, candVars, counterVars,
                   interrupted, summary, outcome>>
    /\ UNCHANGED <<csvVars, toolVars>>

\* atomic_write_json, first step: open the .tmp sibling for writing.
WriteOpen ==
    /\ pc = "open"
    /\ files' = OpenTmp(files, tmp, activity_id, data).files
    /\ tmp' = OpenTmp(files, tmp, activity_id, data).tmp
    /\ pc' = "dump"
    /\ UNCHANGED <<argVars, planVars, feed, candVars, fetched, counterVars,
                   excVars>>
    /\ UNCHANGED <<csvVars, toolVars>>

\* atomic_write_json, second step: the document is written and the file closed.
WriteDump ==
    /\ pc = "dump"
    /\ files' = DumpTmp(files, tmp, activity_id, data).files
    /\ tmp' = DumpTmp(files, tmp, activity_id, data).tmp
    /\ pc' = "replace"
    /\ UNCHANGED <<argVars, planVars, feed, candVars, fetched, counterVars,
                   excVars>>
    /\ UNCHANGED <<csvVars, toolVars>>

\* atomic_write_json, last step: rename the .tmp sibling over the final path.
WriteReplace ==
    /\ pc = "replace"
    /\ files' = ReplaceTmp(files, tmp, activity_id).files
    /\ tmp' = ReplaceTmp(files, tmp, activity_id).tmp
    /\ pc' = "count"
    /\ UNCHANGED <<argVars, planVars, feed, candVars, fetched, counterVars,
                   excVars>>
    /\ UNCHANGED <<csvVars, toolVars>>

\* n_written += 1 (then the optional sleep and the progress line).
CountWrite ==
    /\ pc = "count"
    /\ n_written' = n_written + 1
    /\ pc' = "next"
    /\ activity_id' = 0 /\ data' = 0
    /\ UNCHANGED <<archiveVars, argVars, planVars, feed, fetched, n_listed,
                   n_skipped, excVars>>
    /\ UNCHANGED <<csvVars, toolVars>>

\* The user presses Ctrl-C while main() is running.
Interrupt ==
    /\ outcome = "running"
    /\ pending' = "KeyboardInterrupt"
    /\ interrupted' = InterruptPlace(pc)
    /\ pc' = InterruptTarget(pc)
    /\ outcome' = IF InterruptTarget(pc) = "done" THEN "raised" ELSE outcome
    /\ summary' = summary
    /\ IF InterruptTarget(pc) = "done"
       THEN feed' = {} /\ activity_id' = 0 /\ data' = 0
       ELSE UNCHANGED <<feed, candVars>>
    /\ UNCHANGED <<archiveVars, argVars, planVars, fetched, counterVars>>
    /\ UNCHANGED <<csvVars, toolVars>>

\* except KeyboardInterrupt: print the notice; the exception is consumed.
ExceptClause ==
    /\ pc = "except"
    /\ pending' = "none"
    /\ pc' = "finally"
    /\ UNCHANGED <<archiveVars, argVars, planVars, feed, candVars, fetched,
                   counterVars, interrupted, summary, outcome>>
    /\ UNCHANGED <<csvVars, toolVars>>

\* finally: print the summary; an exception still in flight then leaves main().
FinallyClause ==
    /\ pc = "finally"
    /\ summary' = Some(<<n_listed, n_written, n_skipped>>)
    /\ outcome' = IF pending = "none" THEN "returned" ELSE "raised"
    /\ pc' = "done"
    /\ feed' = {} /\ activity_id' = 0 /\ data' = 0
    /\ UNCHANGED <<archiveVars, argVars, planVars, fetched, counterVars, pending,
                   interrupted>>
    /\ UNCHANGED <<csvVars, toolVars>>

\* The steps of the loop over one candidate, and of the way out of the loop.
LoopNext ==
    \/ NextCandidate
    \/ ListFails
    \/ CheckLimit
    \/ CheckExists
    \/ FetchDetail
    \/ FetchFails
    \/ WriteOpen
    \/ WriteDump
    \/ WriteReplace
    \/ CountWrite
    \/ Interrupt
    \/ ExceptClause
    \/ FinallyClause

Next ==
    \/ StartRun
    \/ ScanBounds
    \/ PlanListing
    \/ FeedExhausted
    \/ ShortFeed
    \/ LoopNext

Spec == Init /\ [][Next]_vars

(* ------------------- the limit scenario of the spec -------------------- *)

\* The archive of the scenario: records 1..5 exist, records 6..10 do not.
ScenarioFiles ==
    [id \in 1 .. 10 |-> IF id <= 5 THEN CompleteFile(1) ELSE AbsentFile]

\* A run started with --limit 3 and without --force, in any mode, at the
\* point where the listing is planned and the feed holds the 10 candidates,
\* which it may yield in any order.
InitScenario ==
    /\ files = ScenarioFiles
    /\ tmp = AbsentFile
    /\ pc = "next"
    /\ mode \in Modes /\ limit = Some(3) /\ force = FALSE
    /\ oldest = get_archive_bounds(ArchiveOf(ScenarioFiles)).oldest
    /\ newest = get_archive_bounds(ArchiveOf(ScenarioFiles)).newest
    /\ list_kwargs = ChooseWindow(mode, oldest, newest)
    /\ feed = DOMAIN ScenarioFiles
    /\ activity_id = 0 /\ data = 0
    /\ fetched = {}
    /\ n_listed = 0 /\ n_written = 0 /\ n_skipped = 0
    /\ pending = "none" /\ interrupted = "no" /\ summary = None
    /\ outcome = "running"
    /\ CsvIdle /\ ToolIdle

\* The feed of the scenario holds the 10 candidates, 5 of them new: the limit
\* of 3 ends every run before the iterator could be exhausted.
SpecScenario == InitScenario /\ [][LoopNext]_vars

(* --------------------------- the CSV export ---------------------------- *)

\* An out/activities.csv of any content (or none) and any batch of activities
\* the feed will return to the first export.
InitCsv ==
    /\ SyncIdle /\ ToolIdle
    /\ csv_file \in {NoFile} \cup {CsvFile(t) : t \in SeqsUpTo(ExistingRowSet, MaxRows)}
    /\ csv_feed \in SeqsUpTo(NewRowSet, MaxNew)
    /\ csv_pc = "ready"
    /\ full = FALSE
    /\ existing_rows = <<>> /\ latest_dt = None
    /\ new_rows = <<>> /\ rows = <<>>

\* python3 src/export_csv.py [--full]: main() from load to write. Once the
\* fetched activities are exported the feed has nothing newer to return. When
\* load_existing_rows raises, main ends there: nothing is fetched or written.
ExportCsv ==
    /\ \E f \in BOOLEAN :
          LET loaded == IF f THEN [rows |-> <<>>, latest_dt |-> None, raised |-> FALSE]
                        ELSE load_existing_rows(csv_file)
              sorted == SortRows(MergeById(loaded.rows, csv_feed))
          IN  /\ full' = f
              /\ IF loaded.raised
                 THEN /\ csv_pc' = "failed"
                      /\ UNCHANGED <<csv_file, csv_feed, existing_rows, latest_dt,
                                     new_rows, rows>>
                 ELSE /\ csv_pc' = "exported"
                      /\ existing_rows' = loaded.rows
                      /\ latest_dt' = loaded.latest_dt
                      /\ new_rows' = csv_feed
                      /\ rows' = sorted
                      /\ csv_file' = WriteCsv(sorted)
                      /\ csv_feed' = <<>>
    /\ UNCHANGED <<syncVars, toolVars>>

NextCsv == ExportCsv

SpecCsv == InitCsv /\ [][NextCsv]_vars

(***************************************************************************)
(* Claims about the archive sync loop.                                     *)
(***************************************************************************)

\* The run is inside main(), between its start and its return.
InRun == pc \notin {"idle", "done"}

\* C1: with a limit, the number of records written in the run never exceeds
\* the limit, and once written = limit no step of the run lists, skips,
\* fetches or writes anything more.
C1_WritesNeverExceedLimit ==
    /\ [](limit # None => n_written <= limit[1])
    /\ [][(InRun /\ limit # None /\ n_written = limit[1] /\ pc' # "scan")
            => /\ n_listed' = n_listed
               /\ n_skipped' = n_skipped
               /\ n_written' = n_written
               /\ fetched' = fetched
               /\ files' = files]_vars

\* A run that reached its limit of 1 and was handed one more candidate.
C1_Witness ==
    /\ limit = Some(1) /\ n_written = 1
    /\ pc = "limit" /\ activity_id # 0

\* C2: a listed candidate whose file exists, without --force, is skipped with
\* no content fetch, n_skipped + 1 and n_written unchanged; a content fetch is
\* issued only for the candidate in hand when its file is absent or --force is
\* set, and between two candidates every fetch of the run has been written.
C2_SkipExistingWithoutFetch ==
    /\ [](pc \in {"next", "limit", "exists"} => Cardinality(fetched) = n_written)
    /\ [][(pc = "exists" /\ pc' # "except")
            => IF Exists(files, activity_id) /\ ~force
               THEN /\ pc' = "next"
                    /\ n_skipped' = n_skipped + 1
                    /\ n_written' = n_written
                    /\ fetched' = fetched
                    /\ activity_id \notin fetched
                    /\ files' = files
               ELSE pc' = "fetch" /\ n_skipped' = n_skipped]_vars
    /\ [][\A id \in fetched' \ fetched :
              id = activity_id /\ (~Exists(files, id) \/ force)]_vars

\* A run without --force that has skipped an existing record and written a new one.
C2_Witness ==
    /\ ~force /\ pc = "next"
    /\ n_skipped >= 1 /\ n_written >= 1
    /\ \E id \in DOMAIN files : Exists(files, id) /\ id \notin fetched

\* C4: once the listing is planned, the cursor is the one of the decision
\* table: --older with a known oldest gives before = oldest only, --new or the
\* default with a known newest gives after = newest only, no bounds gives no
\* cursor in every mode, and before and after are never both set.
C4_CursorFollowsDecisionTable ==
    (pc \in TryBody \cup {"except", "finally"}) =>
        /\ (oldest = None) <=> (newest = None)
        /\ (mode = "older" /\ oldest # None)
              => list_kwargs = [before |-> oldest, after |-> None]
        /\ (mode \in {"new", "default"} /\ newest # None)
              => list_kwargs = [before |-> None, after |-> newest]
        /\ (oldest = None /\ newest = None) => list_kwargs = NoCursor
        /\ ~(list_kwargs.before # None /\ list_kwargs.after # None)

\* A backfill run over an archive whose oldest and newest records differ.
C4_Witness ==
    /\ pc = "next" /\ mode = "older"
    /\ oldest # None /\ oldest # newest
    /\ list_kwargs.before = oldest

\* C5: in every state, also of an interrupted run, every file at a final
\* path is absent or complete, and a step that changes a final file installs
\* the complete new document of the candidate in hand.
C5_FinalFilesNeverPartial ==
    /\ [](\A id \in DOMAIN files : files[id].st \in {"absent", "complete"})
    /\ [][\A id \in DOMAIN files :
              files'[id] # files[id]
                => id = activity_id /\ files'[id] = CompleteFile(data)]_vars

\* An overwrite interrupted while the .tmp sibling was half written: the
\* final file still holds its previous complete content.
C5_Witness ==
    /\ pc = "except" /\ interrupted = "loop"
    /\ tmp = PartialFile
    /\ force /\ activity_id # 0
    /\ files[activity_id].st = "complete"

\* C6 as stated: after a KeyboardInterrupt raised at any point of the run,
\* main() returns normally and the summary line has been printed.
C6_AnyInterruptIsAbsorbed ==
    (pc = "done" /\ interrupted # "no")
        => outcome = "returned" /\ summary # None

\* C6, amended: a KeyboardInterrupt raised inside the try body ends the loop
\* (nothing more is listed, skipped, fetched or written), and unless a further
\* interrupt arrives while it is handled main() returns normally after
\* printing the summary of the three counters.
C6_LoopInterruptIsAbsorbed ==
    /\ [](interrupted = "loop" => pc \in {"except", "finally", "done"})
    /\ []((pc = "done" /\ interrupted = "loop")
            => /\ outcome = "returned"
               /\ pending = "none"
               /\ summary = Some(<<n_listed, n_written, n_skipped>>))
    /\ [][(interrupted = "loop" /\ pc' # "scan")
            => /\ UNCHANGED <<files, fetched, n_listed, n_written, n_skipped>>
               /\ pc' \in {"finally", "done"}]_vars

\* A run interrupted in the loop after a write, returned with its summary.
C6_Witness ==
    /\ pc = "done" /\ interrupted = "loop"
    /\ outcome = "returned"
    /\ n_written >= 1
    /\ summary = Some(<<n_listed, n_written, n_skipped>>)

\* C7: a failing content fetch ends the loop with the error raised to the
\* caller, creates or changes no file, and leaves every record fetched earlier
\* in the run complete on disk.
C7_FetchFailureIsFatalAndHarmless ==
    /\ [](pending = "Error"
            => /\ pc \in {"finally", "done"}
               /\ pc = "done" => outcome = "raised"
               /\ \A id \in DOMAIN files : files[id].st # "partial"
               /\ pc = "finally"
                    => \A id \in fetched \ {activity_id} :
                           files[id].st = "complete")
    /\ [][(pc = "fetch" /\ pending' = "Error")
            => /\ pc' = "finally"
               /\ UNCHANGED <<files, tmp, n_written>>]_vars
    /\ [][pending = "Error" => UNCHANGED <<files, tmp>>]_vars

\* A run that wrote a record and then died on the next content fetch.
C7_Witness ==
    /\ pc = "done" /\ pending = "Error" /\ outcome = "raised"
    /\ n_written >= 1
    /\ Cardinality(fetched) = n_written + 1

\* C8: no step of any run removes a record file, and a step of a run without
\* --force leaves the content of every existing record file as it was.
C8_NeverDeletedNorRewritten ==
    /\ [][\A id \in DOMAIN files : Exists(files, id) => Exists(files', id)]_vars
    /\ [][~force => \A id \in DOMAIN files :
                        Exists(files, id) => files'[id] = files[id]]_vars

\* A later run without --force that wrote a record beside one written before.
C8_Witness ==
    /\ ~force /\ pc = "done" /\ outcome = "returned"
    /\ n_written >= 1 /\ n_skipped >= 1
    /\ \A id \in DOMAIN files : Exists(files, id)

(***************************************************************************)
(* The limit scenario: limit 3, 10 candidates, 5 of them archived.         *)
(***************************************************************************)

\* The loop ended by itself: feed exhausted or limit reached, no interrupt
\* and no failure.
EndedNormally ==
    pc = "done" /\ outcome = "returned" /\ interrupted = "no"

\* C3 as stated: for every ordering of the feed the run writes exactly 3 new
\* files, skips the 5 existing ones, and lists the 5 skipped plus the 3 written.
C3_SkipsAllFiveExisting ==
    EndedNormally
        => /\ n_written = 3
           /\ n_skipped = 5
           /\ n_listed = n_skipped + n_written

\* C3, amended: for every ordering of the feed the run writes exactly 3 new
\* files, fetches content for those 3 only, skips exactly the existing
\* candidates listed before the third new one (at most 5), leaves the 5
\* existing files as they were, and lists skipped + 3 candidates; the feed is
\* never exhausted first.
C3_WritesThreeSkipsListedExisting ==
    /\ pc = "next" => feed # {}
    /\ EndedNormally
        => /\ n_written = 3
           /\ Cardinality(fetched) = 3
           /\ fetched \subseteq 6 .. 10
           /\ \A id \in 6 .. 10 : Exists(files, id) <=> id \in fetched
           /\ \A id \in 1 .. 5 : files[id] = ScenarioFiles[id]
           /\ n_skipped <= 5
           /\ n_listed = n_skipped + 3

\* An ordering in which only two existing records precede the third new one.
C3_Witness ==
    /\ EndedNormally
    /\ n_written = 3 /\ n_skipped = 2 /\ n_listed = 5

(***************************************************************************)
(* Claims about the CSV reconciler.                                        *)
(***************************************************************************)

\* The ids of the rows of a list that have one.
IdsOf(rs) == {rs[i].id : i \in {j \in 1 .. Len(rs) : Truthy(rs[j].id)}}

\* The last row of a list with this id.
LastWithId(rs, id) ==
    rs[CHOOSE i \in 1 .. Len(rs) :
          /\ rs[i].id = id
          /\ \A j \in (i + 1) .. Len(rs) : rs[j].id # id]

\* C9: the merged table holds exactly the ids of the existing rows and of the
\* new rows, each once; an id among the new rows has the new row, any other id
\* keeps its existing row; and the file written holds these rows.
C9_MergeById ==
    csv_pc = "exported" =>
        /\ {rows[i].id : i \in 1 .. Len(rows)} = IdsOf(existing_rows) \cup IdsOf(new_rows)
        /\ \A i, j \in 1 .. Len(rows) : rows[i].id = rows[j].id => i = j
        /\ \A i \in 1 .. Len(rows) :
              IF rows[i].id \in IdsOf(new_rows)
              THEN rows[i] = LastWithId(new_rows, rows[i].id)
              ELSE rows[i] = LastWithId(existing_rows, rows[i].id)
        /\ csv_file = WriteCsv(rows)

\* The example of the spec: existing {10: A, 9: B} merged with new
\* {9: B', 11: C} gives {10: A, 9: B', 11: C}.
C9_Witness ==
    /\ csv_pc = "exported"
    /\ IdsOf(existing_rows) = {<<1, 0>>, <<9>>}
    /\ IdsOf(new_rows) = {<<9>>, <<1, 1>>}
    /\ Len(rows) = 3
    /\ LastWithId(rows, <<9>>) = LastWithId(new_rows, <<9>>)
    /\ LastWithId(rows, <<9>>) # LastWithId(existing_rows, <<9>>)
    /\ LastWithId(rows, <<1, 0>>) = LastWithId(existing_rows, <<1, 0>>)

\* C10: when out/activities.csv is the output of an export without --full that
\* had no new rows, another such export writes the identical file.
C10_ReconcilerIdempotent ==
    [][(/\ csv_pc = "exported" /\ ~full /\ new_rows = <<>>
        /\ ~full' /\ new_rows' = <<>>)
          => csv_file' = csv_file]_vars

\* An export with no new rows that had to reorder or drop rows of the table
\* it was given, and wrote at least two rows.
C10_Witness ==
    /\ csv_pc = "exported" /\ ~full /\ new_rows = <<>>
    /\ existing_rows # csv_file.rows
    /\ Len(csv_file.rows) >= 2

\* Every arrangement of the rows of rs.
Arrangements(rs) ==
    {[i \in 1 .. Len(rs) |-> rs[p[i]]] :
        p \in {q \in [1 .. Len(rs) -> 1 .. Len(rs)] :
                  \A i, j \in 1 .. Len(rs) : q[i] = q[j] => i = j}}

\* C11: the table written is the merged rows in strictly descending order of
\* the key (date_local, start_time_local, id), each part compared as a string,
\* and whatever order the merge holds its rows in, sorting gives this same
\* sequence.
C11_StrictDescendingAnyMergeOrder ==
    csv_pc = "exported" =>
        LET merged == MergeById(existing_rows, new_rows)
        IN  /\ \A i, j \in 1 .. Len(rows) :
                  i < j => KeyLess(KeyOf(rows[j]), KeyOf(rows[i]))
            /\ rows \in Arrangements(merged)
            /\ \A m \in Arrangements(merged) : SortRows(m) = rows

\* Three merged rows that the sort had to reorder, two of them with the same
\* date and time, so that the id decides their order.
C11_Witness ==
    /\ csv_pc = "exported"
    /\ Len(rows) = 3
    /\ rows # MergeById(existing_rows, new_rows)
    /\ \E i \in 1 .. 2 :
          /\ KeyOf(rows[i])[1] = KeyOf(rows[i + 1])[1]
          /\ KeyOf(rows[i])[2] = KeyOf(rows[i + 1])[2]

\* A row whose date and time are both texts datetime.fromisoformat accepts,
\* and the instant they denote.
PairParses(r) ==
    r.date_local \in ValidDates /\ r.start_time_local \in ValidTimes \cup AwareTimes
InstantOf(r) ==
    <<r.date_local[1], r.start_time_local[1], r.start_time_local \in AwareTimes>>

\* rs without its i-th row, and rs with r put in front of its i-th row.
WithoutRow(rs, i) == SubSeq(rs, 1, i - 1) \o SubSeq(rs, i + 1, Len(rs))
WithRow(rs, i, r) == SubSeq(rs, 1, i - 1) \o <<r>> \o SubSeq(rs, i, Len(rs))

\* C12: for every existing table, an export without --full gets an anchor from
\* load_existing_rows: the greatest instant among the rows whose date and time
\* parse, none exactly when no row parses, and the same anchor when a row that
\* does not parse is taken away or added anywhere.
C12_AnchorIsMaxOfParseableRows ==
    (csv_pc # "ready" /\ ~full) =>
        /\ csv_pc = "exported"
        /\ LET n == Len(existing_rows)
               good == {i \in 1 .. n : PairParses(existing_rows[i])}
               unparsed == {r \in ExistingRowSet : ~PairParses(r)}
           IN  /\ (latest_dt = None) <=> (good = {})
               /\ good # {} =>
                     /\ \E i \in good : latest_dt = Some(InstantOf(existing_rows[i]))
                     /\ \A i \in good :
                           InstantLeq(InstantOf(existing_rows[i]), latest_dt[1])
               /\ \A i \in (1 .. n) \ good :
                     load_existing_rows(CsvFile(WithoutRow(existing_rows, i))).latest_dt
                         = latest_dt
               /\ \A i \in 1 .. (n + 1) : \A r \in unparsed :
                     load_existing_rows(CsvFile(WithRow(existing_rows, i, r))).latest_dt
                         = latest_dt

(***************************************************************************)
(* The archive readers.                                                    *)
(***************************************************************************)

\* Any archive directory, before a reader runs.
InitReaders ==
    /\ SyncIdle /\ CsvIdle
    /\ archive_dir \in Directories
    /\ scan = NoScan
    /\ call = NoCall /\ ret = <<>>
    /\ outputs = NoOutputs

\* list(iter_activity_dicts(archive_dir))
EnumerateRecords ==
    /\ scan' = [tool |-> "iter_activity_dicts",
                records |-> iter_activity_dicts(archive_dir)]
    /\ UNCHANGED <<syncVars, csvVars, archive_dir, call, ret, outputs>>

\* get_archive_bounds() over archive_dir, as the sync runs it before it plans.
ScanArchiveBounds ==
    /\ scan' = [tool |-> "get_archive_bounds",
                oldest |-> get_archive_bounds(archive_dir).oldest,
                newest |-> get_archive_bounds(archive_dir).newest,
                raised |-> get_archive_bounds(archive_dir).raised]
    /\ UNCHANGED <<syncVars, csvVars, archive_dir, call, ret, outputs>>

\* python3 src/generate_run_log.py: main() from the load to write_text. When
\* load_runs_by_month raises, nothing was created yet.
GenerateRunLog ==
    /\ LET run == generate_run_log(archive_dir)
       IN  /\ scan' = [tool |-> "generate_run_log", raised |-> run.raised,
                       lines |-> run.lines]
           /\ outputs' = IF run.raised # "" THEN outputs
                         ELSE [outputs EXCEPT
                                 !["reports"] = DirOutput,
                                 !["reports/runs_log.txt"] = Written(run.lines)]
    /\ UNCHANGED <<syncVars, csvVars, archive_dir, call, ret>>

NextReaders ==
    \/ EnumerateRecords
    \/ ScanArchiveBounds
    \/ GenerateRunLog

SpecReaders == InitReaders /\ [][NextReaders]_vars

\* The stems of the files of archive_dir that hold a JSON object.
DictNames == {n \in DOMAIN archive_dir.files : IsDict(archive_dir.files[n])}

\* C13: iter_activity_dicts yields exactly the objects of the files that can
\* be read and parse to a JSON object, each once, in the ascending order of
\* the file names; the other files are passed over, and a missing directory
\* yields nothing.
C13_YieldsObjectsInNameOrder ==
    scan.tool = "iter_activity_dicts" =>
        /\ ~archive_dir.exists => scan.records = <<>>
        /\ Len(scan.records) = Cardinality(DictNames)
        /\ \E q \in [1 .. Len(scan.records) -> DictNames] :
              /\ \A i, j \in 1 .. Len(scan.records) : i < j => StrLess(q[i], q[j])
              /\ \A i \in 1 .. Len(scan.records) :
                    scan.records[i] = archive_dir.files[q[i]]

\* "10.json" and "9.json" hold objects and "11.json" holds a list: the object
\* of "10.json" is yielded before that of "9.json", and nothing else is.
C13_Witness ==
    /\ scan.tool = "iter_activity_dicts"
    /\ DOMAIN archive_dir.files = {<<9>>, <<1, 0>>, <<1, 1>>}
    /\ archive_dir.files[<<1, 1>>] = JsonList
    /\ IsDict(archive_dir.files[<<9>>]) /\ IsDict(archive_dir.files[<<1, 0>>])
    /\ archive_dir.files[<<9>>] # archive_dir.files[<<1, 0>>]
    /\ scan.records = <<archive_dir.files[<<1, 0>>], archive_dir.files[<<9>>]>>

\* archive_dir with only its files that hold a JSON object.
ObjectsOnly == Dir([n \in DictNames |-> archive_dir.files[n]])

\* C14: over every archive content the bounds scan returns: it raises
\* nothing, and a file that is unreadable or whose JSON is no object counts for
\* nothing in the bounds it returns.
C14_BoundsScanNeverAborts ==
    scan.tool = "get_archive_bounds" =>
        /\ ~scan.raised
        /\ ~get_archive_bounds(ObjectsOnly).raised =>
              /\ scan.oldest = get_archive_bounds(ObjectsOnly).oldest
              /\ scan.newest = get_archive_bounds(ObjectsOnly).newest

\* The local-or-UTC start of every object of archive_dir that has one.
LocalStarts ==
    {activity_start_local(archive_dir.files[n])[1] :
        n \in {m \in DictNames : activity_start_local(archive_dir.files[m]) # None}}

\* C15: what the bounds scan returns is the least and the greatest
\* local-or-UTC start (start_date_local when it parses, else start_date) over
\* the records; both are none exactly when no record has one, and otherwise
\* oldest <= newest.
C15_BoundsAreMinMaxOfLocalStart ==
    (scan.tool = "get_archive_bounds" /\ ~scan.raised) =>
        /\ (scan.oldest = None) <=> (LocalStarts = {})
        /\ (scan.newest = None) <=> (LocalStarts = {})
        /\ LocalStarts # {} =>
              /\ scan.oldest[1] \in LocalStarts /\ scan.newest[1] \in LocalStarts
              /\ \A x \in LocalStarts :
                    ~DtLess(x, scan.oldest[1]) /\ ~DtLess(scan.newest[1], x)
              /\ ~DtLess(scan.newest[1], scan.oldest[1])

(***************************************************************************)
(* The helper functions, called on their own.                              *)
(***************************************************************************)

\* Nothing has run; each helper is then called once, on any argument.
InitHelpers == SyncIdle /\ CsvIdle /\ ToolIdle

CallNormalizeRootString ==
    /\ call = NoCall
    /\ \E v \in Texts \cup {NoneValue} :
          /\ call' = [fn |-> "normalize_root_string", v |-> v]
          /\ ret' = normalize_root_string(v)
    /\ UNCHANGED <<syncVars, csvVars, archive_dir, scan, outputs>>

CallExtractRootString ==
    /\ call = NoCall
    /\ \E v \in Texts \cup {NoneValue} :
          /\ call' = [fn |-> "extract_root_string", v |-> v]
          /\ ret' = extract_root_string(v)
    /\ UNCHANGED <<syncVars, csvVars, archive_dir, scan, outputs>>

CallActivityType ==
    /\ call = NoCall
    /\ \E a \in TypedRecords :
          /\ call' = [fn |-> "activity_type", a |-> a]
          /\ ret' = [kind |-> activity_type(a), is_run |-> is_run(a)]
    /\ UNCHANGED <<syncVars, csvVars, archive_dir, scan, outputs>>

CallActivityToRow ==
    /\ call = NoCall
    /\ \E a \in TypedRecords :
          /\ call' = [fn |-> "activity_to_row", a |-> a]
          /\ ret' = activity_to_row_type(a)
    /\ UNCHANGED <<syncVars, csvVars, archive_dir, scan, outputs>>

CallPaceSecondsPerMile ==
    /\ call = NoCall
    /\ \E d \in PaceDistances, t \in PaceDurations :
          /\ call' = [fn |-> "pace_seconds_per_mile", distance_mi |-> d,
                      moving_time_sec |-> t]
          /\ ret' = pace_seconds_per_mile(d, t)
    /\ UNCHANGED <<syncVars, csvVars, archive_dir, scan, outputs>>

\* is_run(activity) of activity.py, of generate_run_log.py and of
\* generate_activity_log.py, each called on the same record.
CallIsRun ==
    /\ call = NoCall
    /\ \E a \in TypedRecords :
          /\ call' = [fn |-> "is_run", a |-> a]
          /\ ret' = [activity |-> is_run(a),
                     generate_run_log |-> report_is_run(a),
                     generate_activity_log |-> activity_log_is_run(a)]
    /\ UNCHANGED <<syncVars, csvVars, archive_dir, scan, outputs>>

NextHelpers ==
    \/ CallPaceSecondsPerMile
    \/ CallNormalizeRootString
    \/ CallExtractRootString
    \/ CallActivityType
    \/ CallActivityToRow
    \/ CallIsRun

SpecHelpers == InitHelpers /\ [][NextHelpers]_vars

\* The kinds of activity that count as runs.
RunKinds == {<<"Run">>, <<"TrailRun">>, <<"VirtualRun">>}

\* The kind the claim gives a record: its normalized type, or its normalized
\* sport_type when that is empty.
KindOf(a) ==
    IF normalize_root_string(a.type) # <<>>
    THEN normalize_root_string(a.type)
    ELSE normalize_root_string(a.sport_type)

\* C16: the kind computed for a record, by activity_type and by the type
\* column of activity_to_row, is the normalized type when that is not empty and
\* the normalized sport_type otherwise; and the record counts as a run exactly
\* when this kind is Run, TrailRun or VirtualRun.
C16_KindPrefersTypeAndRunsAreRunKinds ==
    /\ call.fn = "activity_type" =>
          /\ ret.kind = KindOf(call.a)
          /\ ret.is_run <=> (KindOf(call.a) \in RunKinds)
    /\ call.fn = "activity_to_row" =>
          /\ ret.type = KindOf(call.a)
          /\ ret.paced <=> (KindOf(call.a) \in RunKinds)

\* C17: pace_seconds_per_mile raises nothing; it returns none when the
\* distance or the duration is not positive and duration / distance otherwise;
\* (0, 600) and (5, 0) give none and (5, 3000) gives 600.
C17_PaceGuardsNonPositive ==
    call.fn = "pace_seconds_per_mile" =>
        LET d == call.distance_mi
            t == call.moving_time_sec
        IN  /\ ret.raised = ""
            /\ (d <= 0 \/ t <= 0) => ret.value = None
            /\ (d > 0 /\ t > 0) =>
                  /\ ret.value # None
                  /\ ret.value[1][2] > 0
                  /\ ret.value[1][1] * d = t * ret.value[1][2]
            /\ (d = 0 /\ t = 600) => ret.value = None
            /\ (d = 5 /\ t = 0) => ret.value = None
            /\ (d = 5 /\ t = 3000) => ret.value = Some(<<600, 1>>)

\* The call of the example: 5 miles in 3000 seconds is 600 seconds a mile.
C17_Witness ==
    /\ call.fn = "pace_seconds_per_mile"
    /\ call.distance_mi = 5 /\ call.moving_time_sec = 3000
    /\ ret = [raised |-> "", value |-> Some(<<600, 1>>)]

\* The tagged forms of a text: a root=' at i whose value runs up to the quote
\* at j.
TaggedForms(v) ==
    {p \in (1 .. Len(v)) \X (1 .. Len(v)) :
        /\ v[p[1]] = "root=" /\ p[1] + 3 <= p[2]
        /\ v[p[1] + 1] = "'" /\ v[p[2]] = "'"
        /\ \A k \in (p[1] + 2) .. (p[2] - 1) : v[k] # "'"}

\* r is v without the blanks at its two ends.
IsTrimmed(r, v) ==
    /\ r = <<>> \/ (r[1] # " " /\ r[Len(r)] # " ")
    /\ \E i \in 0 .. Len(v) :
          /\ i + Len(r) <= Len(v)
          /\ SubSeq(v, i + 1, i + Len(r)) = r
          /\ \A k \in (1 .. i) \cup ((i + Len(r) + 1) .. Len(v)) : v[k] = " "

\* C18: the normalizer, in activity.py and in generate_csv.py, returns "" for
\* a null input, the value of the first tagged form root='<value>' when the
\* text contains one, and the trimmed text otherwise: "root='Walk'" gives
\* "Walk", "Run" gives "Run".
C18_EnumStringTaggedOrTrimmed ==
    call.fn \in {"normalize_root_string", "extract_root_string"} =>
        LET v == call.v
        IN  IF v = NoneValue THEN ret = <<>>
            ELSE /\ TaggedForms(v) # {} =>
                      \E p \in TaggedForms(v) :
                          /\ \A q \in TaggedForms(v) : p[1] <= q[1]
                          /\ ret = SubSeq(v, p[1] + 2, p[2] - 1)
                 /\ TaggedForms(v) = {} => IsTrimmed(ret, v)
                 /\ v = <<"root=", "'", "Walk", "'">> => ret = <<"Walk">>
                 /\ v = <<"Run">> => ret = <<"Run">>

\* The positions of the lines of one kind in the report written last.
LinesOf(kind) == {i \in 1 .. Len(scan.lines) : scan.lines[i].kind = kind}

\* The month line a line of the report stands under.
MonthAbove(i) ==
    scan.lines[CHOOSE m \in LinesOf("month") :
                  m < i /\ \A o \in LinesOf("month") : o < i => o <= m]

\* The files of archive_dir that hold a run with a start date, by the claim's
\* own notions: the kind of C16 and the local-or-UTC start of activity.py.
RunFiles ==
    {n \in DictNames : /\ KindOf(archive_dir.files[n]) \in RunKinds
                       /\ activity_start_local(archive_dir.files[n]) # None}
RunDay(n) == activity_start_local(archive_dir.files[n])[1].day

\* C19: in the runs report the month lines come in descending (year, month)
\* order, no run line has a date smaller than that of a run line after it,
\* every run line stands under the month of its date, and every run of the
\* archive that has a start date has its line: as many lines with a date as
\* there are such runs with that local start date.
C19_ReportNewestFirstOneBucketEach ==
    (scan.tool = "generate_run_log" /\ scan.raised = "") =>
        /\ \A i, j \in LinesOf("month") :
              i < j => KeyBefore(<<scan.lines[j].year, scan.lines[j].month>>,
                                 <<scan.lines[i].year, scan.lines[i].month>>)
        /\ \A i, j \in LinesOf("run") :
              i < j => ~DayLess(scan.lines[i].date_str, scan.lines[j].date_str)
        /\ \A i \in LinesOf("run") :
              /\ MonthAbove(i).year = scan.lines[i].date_str[1]
              /\ MonthAbove(i).month = scan.lines[i].date_str[2]
        /\ Cardinality(LinesOf("run")) = Cardinality(RunFiles)
        /\ \A n \in RunFiles :
              Cardinality({i \in LinesOf("run") : scan.lines[i].date_str = RunDay(n)})
                  = Cardinality({m \in RunFiles : RunDay(m) = RunDay(n)})

\* C20: the report never ends in a division by zero; the Pace line of a month
\* carries a pace exactly when the Miles and the Time of the month are both
\* positive, and the pace is then Time / Miles to the nearest second; otherwise
\* the line reads N/A.
C20_AveragePaceOnlyForPositiveTotals ==
    scan.tool = "generate_run_log" =>
        /\ scan.raised # "ZeroDivisionError"
        /\ \A i \in LinesOf("Pace") :
              LET miles == scan.lines[i - 2].miles
                  seconds == scan.lines[i - 1].seconds
                  pace == scan.lines[i].pace
              IN  /\ scan.lines[i - 2].kind = "Miles" /\ scan.lines[i - 1].kind = "Time"
                  /\ (pace # None) <=> (miles[1] > 0 /\ seconds > 0)
                  /\ pace # None =>
                        LET p == 60 * pace[1][1] + pace[1][2]
                            diff == p * miles[1] - seconds * miles[2]
                        IN  /\ 2 * diff <= miles[1]
                            /\ 2 * (0 - diff) <= miles[1]

\* A report with a month whose only run has no distance (Pace: N/A, no run
\* without a time either) and a month with a pace.
C20_Witness ==
    /\ scan.tool = "generate_run_log" /\ scan.raised = ""
    /\ \E i \in LinesOf("Pace") :
          /\ scan.lines[i].pace = None
          /\ scan.lines[i - 2].miles[1] = 0 /\ scan.lines[i - 1].seconds > 0
    /\ \E i \in LinesOf("Pace") : scan.lines[i].pace # None

(***************************************************************************)
(* The report generators, each run on its own.                             *)
(***************************************************************************)

\* An archive and no CSV, or a CSV and no archive; no output yet (but out/
\* when the CSV is there), or every output left by an earlier run.
InitReports ==
    /\ SyncIdle
    /\ \/ archive_dir \in ReportDirectories /\ csv_file = NoFile
       \/ /\ archive_dir = NoDir
          /\ csv_file \in {CsvFile(t) : t \in SeqsUpTo(ReportRowSet, MaxRows)}
    /\ csv_feed = <<>> /\ csv_pc = "ready" /\ full = FALSE
    /\ existing_rows = <<>> /\ latest_dt = None
    /\ new_rows = <<>> /\ rows = <<>>
    /\ scan = NoScan
    /\ call = NoCall /\ ret = <<>>
    /\ outputs \in {[NoOutputs EXCEPT !["out"] = IF csv_file.exists THEN DirOutput
                                                 ELSE AbsentOutput],
                    OldOutputs}

\* python3 src/export_log.py
ExportLog ==
    /\ scan = NoScan
    /\ LET run == export_log(csv_file)
       IN  /\ scan' = [tool |-> "export_log", raised |-> run.raised, lines |-> run.lines]
           /\ outputs' = IF run.raised # "" THEN outputs
                         ELSE [outputs EXCEPT
                                 !["out"] = DirOutput,
                                 !["out/activity_log.txt"] = Written(run.lines)]
    /\ UNCHANGED <<syncVars, csvVars, archive_dir, call, ret>>

\* python3 src/export_runs_log.py
ExportRunsLog ==
    /\ scan = NoScan
    /\ LET run == export_runs_log(csv_file)
       IN  /\ scan' = [tool |-> "export_runs_log", raised |-> run.raised,
                       lines |-> run.lines]
           /\ outputs' = IF run.raised # "" THEN outputs
                         ELSE [outputs EXCEPT
                                 !["out"] = DirOutput,
                                 !["out/runs_log.txt"] = Written(run.lines)]
    /\ UNCHANGED <<syncVars, csvVars, archive_dir, call, ret>>

\* python3 src/generate_csv.py: OUT_DIR is made before the files are read.
GenerateCsv ==
    /\ scan = NoScan
    /\ LET run == generate_csv(archive_dir)
       IN  /\ scan' = [tool |-> "generate_csv", raised |-> run.raised, rows |-> run.rows]
           /\ outputs' = [outputs EXCEPT
                            !["derived"] = IF run.mkdir THEN DirOutput ELSE @,
                            !["derived/activities.csv"] =
                                IF run.raised = "" THEN Written(run.rows) ELSE @]
    /\ UNCHANGED <<syncVars, csvVars, archive_dir, call, ret>>

\* python3 src/generate_activity_log.py, glob handing out the files in any
\* order.
GenerateActivityLog ==
    /\ scan = NoScan
    /\ \E order \in GlobOrders(DOMAIN archive_dir.files) :
          LET run == generate_activity_log(archive_dir, order)
          IN  /\ scan' = [tool |-> "generate_activity_log", raised |-> run.raised,
                          lines |-> run.lines]
              /\ outputs' = IF run.raised # "" THEN outputs
                            ELSE [outputs EXCEPT
                                    !["reports"] = DirOutput,
                                    !["reports/activity_log.txt"] = Written(run.lines)]
    /\ UNCHANGED <<syncVars, csvVars, archive_dir, call, ret>>

NextReports ==
    \/ ExportLog
    \/ ExportRunsLog
    \/ GenerateCsv
    \/ GenerateActivityLog
    \/ GenerateRunLog

SpecReports == InitReports /\ [][NextReports]_vars

\* The generators that read out/activities.csv and those that read the
\* archive directory.
CsvReaders == {"export_log", "export_runs_log"}
ArchiveReaders == {"generate_csv", "generate_activity_log", "generate_run_log"}

\* C21: a generator that runs while its input is missing (out/activities.csv
\* for export_log and export_runs_log, the archive directory for generate_csv,
\* generate_activity_log and generate_run_log) ends with a fatal error and
\* leaves every output path as it was: nothing is created or overwritten.
C21_MissingInputAbortsBeforeOutput ==
    [][(/\ scan' # scan
        /\ \/ scan'.tool \in CsvReaders /\ ~csv_file.exists
           \/ scan'.tool \in ArchiveReaders /\ ~archive_dir.exists)
       => /\ scan'.raised \in {"FileNotFoundError", "SystemExit"}
          /\ outputs' = outputs]_vars

\* export_log has run without out/activities.csv while an activity log of an
\* earlier run was there: it raised and the old log is still in place.
C21_Witness ==
    /\ scan.tool = "export_log" /\ ~csv_file.exists
    /\ scan.raised = "FileNotFoundError"
    /\ outputs["out/activity_log.txt"] = OldOutput

CandidateInHand == {"exists", "fetch", "open", "dump", "replace", "count"}

\* n_listed - (n_written + n_skipped)
Uncounted == n_listed - (n_written + n_skipped)

\* C23: n_listed - (n_written + n_skipped) is 0 or 1 in every state; it is 1
\* while a candidate is between being listed and being skipped or written, 0
\* at the head of the loop, and it stays 1 afterwards only in a run that an
\* interrupt or a failure has cut short; the summary carries the counters,
\* and that of a run that ends normally has listed = written + skipped.
C23_ListedIsWrittenPlusSkipped ==
    /\ Uncounted \in {0, 1}
    /\ pc \in CandidateInHand => Uncounted = 1
    /\ pc \in {"idle", "scan", "plan", "next", "limit"} => Uncounted = 0
    /\ (Uncounted = 1 /\ pc \notin CandidateInHand)
          => /\ pc \in {"except", "finally", "done"}
             /\ interrupted # "no" \/ pending # "none"
    /\ summary # None => summary = Some(<<n_listed, n_written, n_skipped>>)
    /\ (pc = "done" /\ outcome = "returned" /\ interrupted = "no")
          => /\ summary # None
             /\ summary[1][1] = summary[1][2] + summary[1][3]

\* A run that ended normally after it wrote one record and skipped another.
C23_Witness ==
    /\ pc = "done" /\ outcome = "returned" /\ interrupted = "no"
    /\ summary = Some(<<2, 1, 1>>)

\* A run cut short with a candidate in hand reports one listed record more.
C23_WitnessCutShort ==
    /\ pc = "done" /\ summary # None
    /\ summary[1][1] = summary[1][2] + summary[1][3] + 1

(* ------------------- Resuming a partial forward sync -------------------- *)

\* The remote account of the resume runs: two more activities than the archive
\* model, so that two of them share one start instant above the oldest.
ResumeIds == 1 .. (NumIds + 2)

\* The start instant the feed knows for an activity: the start_date that
\* activity_to_dict writes for it, read as get_archive_bounds reads it.
RemoteStart(id) == parse_iso(SyncedRecord(id).start_date)[1]

\* client.get_activities(after=..., before=...): the activities that started
\* strictly after the "after" cursor and strictly before the "before" cursor.
Listing(kwargs) ==
    {id \in ResumeIds :
        /\ kwargs.after = None \/ DtLess(kwargs.after[1], RemoteStart(id))
        /\ kwargs.before = None \/ DtLess(RemoteStart(id), kwargs.before[1])}

\* Earlier runs, of any mode, left some records in the archive.
InitResume ==
    /\ \E A \in (SUBSET ResumeIds) \ {{}} :
          files = [id \in ResumeIds |->
                     IF id \in A THEN CompleteFile(1) ELSE AbsentFile]
    /\ tmp = AbsentFile
    /\ pc = "idle"
    /\ mode = "default" /\ limit = None /\ force = FALSE
    /\ oldest = None /\ newest = None /\ list_kwargs = NoCursor
    /\ feed = {}
    /\ activity_id = 0 /\ data = 0
    /\ fetched = {}
    /\ n_listed = 0 /\ n_written = 0 /\ n_skipped = 0
    /\ pending = "none" /\ interrupted = "no" /\ summary = None
    /\ outcome = "idle"
    /\ CsvIdle /\ ToolIdle

\* export_activities_json.py --new or with neither mode flag, with no --limit
\* or with --limit N, N >= 1.
StartForwardRun ==
    /\ StartRun
    /\ mode' # "older"
    /\ limit' # Some(0)

\* The listing window, then the iterator over what the feed holds inside it.
PlanForward ==
    /\ pc = "plan"
    /\ list_kwargs' = ChooseWindow(mode, oldest, newest)
    /\ feed' = Listing(ChooseWindow(mode, oldest, newest))
    /\ pc' = "next"
    /\ UNCHANGED <<archiveVars, argVars, oldest, newest, candVars, fetched,
                   counterVars, excVars>>
    /\ UNCHANGED <<csvVars, toolVars>>

\* With an "after" cursor the iterator yields oldest first: no activity still
\* to come started before the one it yields.
NextOldestFirst ==
    /\ NextCandidate
    /\ \A j \in feed : ~DtLess(RemoteStart(j), RemoteStart(activity_id'))

\* Forward runs one after the other, none interrupted, no request failing.
NextResume ==
    \/ StartForwardRun
    \/ ScanBounds
    \/ PlanForward
    \/ NextOldestFirst
    \/ FeedExhausted
    \/ CheckLimit
    \/ CheckExists
    \/ FetchDetail
    \/ WriteOpen
    \/ WriteDump
    \/ WriteReplace
    \/ CountWrite
    \/ FinallyClause

\* Every run goes on to its end and another run follows it.
SpecResume == InitResume /\ [][NextResume]_vars /\ WF_vars(NextResume)

Archived(id) == files[id].st = "complete"

\* The activity did not start before the newest record of the archive.
NotEarlierThanNewest(id) ==
    \A j \in ResumeIds : Archived(j) => ~DtLess(RemoteStart(id), RemoteStart(j))

\* Another activity with the same start instant is in the archive.
TwinArchived(id) ==
    \E j \in ResumeIds \ {id} : Archived(j) /\ RemoteStart(j) = RemoteStart(id)

\* C24 as stated: every remote record that did not start before the newest
\* archived one at the first run is archived in the end, the records that
\* share the start instant of an archived record included.
C24_NoPermanentGap ==
    \A id \in ResumeIds :
        (pc = "idle" /\ NotEarlierThanNewest(id)) ~> Archived(id)

\* C24: repeated forward runs with a limit of at least 1 archive in the end
\* every remote record that did not start before the newest archived one at
\* the first run, except a record whose start instant is also that of a record
\* already in the archive; the feed of a run never lists a record that does
\* not start strictly after every archived one.
C24_ResumeArchivesAllButTwins ==
    /\ \A id \in ResumeIds :
          (pc = "idle" /\ NotEarlierThanNewest(id))
              ~> (Archived(id) \/ TwinArchived(id))
    /\ [][pc = "plan" =>
            \A id \in feed' : \A j \in ResumeIds :
                Archived(j) => DtLess(RemoteStart(j), RemoteStart(id))]_vars

\* A run with --limit 1 resumed after the record written last, wrote the next
\* one, and the twin of the record written last is still missing.
C24_Witness ==
    /\ pc = "done" /\ outcome = "returned"
    /\ limit = Some(1) /\ n_written = 1
    /\ list_kwargs.after = Some(RemoteStart(2))
    /\ Archived(2) /\ ~Archived(3) /\ RemoteStart(2) = RemoteStart(3)
    /\ fetched = {4} /\ Archived(4)

(* -------------------- The three run classifiers agree ------------------- *)

\* C25: activity.is_run, generate_run_log.is_run and
\* generate_activity_log.is_run return the same boolean for every record
\* whose type and sport_type are plain, tagged, whitespace-only, empty or
\* absent.
C25_RunClassifiersAgree ==
    call.fn = "is_run" =>
        /\ ret.generate_run_log = ret.activity
        /\ ret.generate_activity_log = ret.activity

====
